---- MODULE Spec2Model ----
(***************************************************************************)
(* A model of JMAP.Connection (source/api/Connection.js): the work queues, *)
(* the request pipeline (send, makeRequest, pagination), response dispatch *)
(* (ioDidSucceed, handleResponses, processCallbacks) and the failure       *)
(* classifier (ioDidFail), driven by an application that appends work, a   *)
(* run loop with a 'middle' and an 'after' queue, an HTTP transport and a  *)
(* server. The connection handles the record types Message and            *)
(* MessageThread (source/mail/Message.js) and CalendarEvent, whose refresh *)
(* handler is the string 'CalendarEvent'.                                  *)
(***************************************************************************)
EXTENDS Integers, Sequences, FiniteSets, TLC

\* ------------------------------------------------------------------ bounds

\* Method calls the application may issue in one behaviour.
MaxCalls == 3
\* Callbacks the application may register in one behaviour.
MaxCallbacks == 2
\* Largest maxCallsInRequest a session advertises.
MaxPage == 2
\* Direct method calls made in the one tick of SpecTick.
MaxDirect == 2

\* ------------------------------------------------------------ option values

\* A nullable slot holds Null or Some(v).
Null == <<>>
Some(v) == <<v>>
Val(o) == o[1]

\* ----------------------------------------------------------- tags (strings)

Digits == <<"0", "1", "2", "3", "4", "5", "6", "7", "8", "9">>

\* n + '' : the decimal string of a non-negative integer.
RECURSIVE DecStr(_)
DecStr(n) == IF n < 10 THEN Digits[n + 1]
             ELSE DecStr(n \div 10) \o Digits[(n % 10) + 1]

NaN == -1

\* +id : JavaScript's numeric conversion of a tag. The empty string is 0, a
\* decimal string (leading zeros allowed) its value, anything else NaN.
ToNumber(s) ==
    IF s = "" THEN 0
    ELSE IF \E n \in 0..99 : DecStr(n) = s
         THEN CHOOSE n \in 0..99 : DecStr(n) = s
         ELSE IF \E n \in 0..9 : "0" \o DecStr(n) = s
              THEN CHOOSE n \in 0..9 : "0" \o DecStr(n) = s
              ELSE NaN

\* remoteCalls[ +id ] : Null when the index is NaN or outside the array.
AtIndex(calls, n) == IF n >= 0 /\ n < Len(calls) THEN Some(calls[n + 1]) ELSE Null

\* ------------------------------------------------------------- method calls

NoRef == ""

\* [ name, args, id ]. args.id stands for the payload of the arguments,
\* args.ref is the resultOf of a '#'-prefixed argument (NoRef: none).
MethodCall(name, args, tag) == [name |-> name, args |-> args, tag |-> tag]

Args(id, ref) == [id |-> id, ref |-> ref]

hasResultReference(methodCall) == methodCall.args.ref # NoRef

\* A method response [ name, args, tag ]; args.type is "ok" for a result and
\* the JMAP error type for an error, args.of stands for the payload.
MethodResponse(name, type, of, tag) ==
    [name |-> name, args |-> [type |-> type, of |-> of], tag |-> tag]

NO_RESPONSE == MethodResponse("error", "", 0, "")

serverUnavailable(methodResponse) ==
    methodResponse.name = "error" /\ methodResponse.args.type = "serverUnavailable"

\* ------------------------------------------------------------------- state

VARIABLES
    \* Connection
    sendQueue,            \* _sendQueue
    callbackQueue,        \* _callbackQueue: << clientTag, fn >> pairs
    typesToRefresh,       \* _typesToRefresh: type ids awaiting a refresh
    typesToFetch,         \* _typesToFetch
    recordsToFetch,       \* _recordsToFetch
    recordsToRefresh,     \* _recordsToRefresh
    queriesToFetch,       \* _queriesToFetch: ids of the queries to fetch
    inFlightContext,      \* _inFlightContext
    inFlightRemoteCalls,
    inFlightCallbacks,
    inFlightRequest,      \* the HttpRequest and the body it carries
    willRetry,
    \* auth
    maxCallsInRequest,    \* capabilities[ 'urn:ietf:params:jmap:core' ]
    authReady,            \* what connectionWillSend answers
    \* run loop
    sendQueued,           \* send() waits in the 'after' queue
    middleQueue,          \* callbacks waiting in the 'middle' queue
    \* transport
    outstanding,          \* HTTP requests sent whose io:end has not fired
    ioStatus,             \* status of the io event delivered, io:end due
    ioData,               \* event.data of an io:success delivered
    \* application
    issued,               \* argument payloads handed out so far
    registered,           \* callbacks registered so far
    \* observation of the batch most recently put in flight
    batch,                \* its calls and callbacks
    outcome,              \* "none", "inflight", "kept", "resent", "completed",
                          \* "discarded"
    pageLog,              \* per answered page: calls sent, responses, handler calls
    callbackLog,          \* callbacks run, in the order they ran
    scheduled,            \* fn -> times queued on the run loop
    lastSent,             \* body of the most recent HTTP request
    \* pure functions
    pure                  \* arguments and results of the function applied

program == << sendQueue, callbackQueue, typesToRefresh, typesToFetch,
           recordsToFetch, recordsToRefresh, queriesToFetch,
           inFlightContext, inFlightRemoteCalls,
           inFlightCallbacks, inFlightRequest, willRetry, maxCallsInRequest,
           authReady, sendQueued, middleQueue, outstanding, ioStatus, ioData,
           issued,
           registered, batch, outcome, pageLog, callbackLog, scheduled,
           lastSent >>

vars == << program, pure >>

connVars == << sendQueue, callbackQueue, typesToRefresh, typesToFetch,
               recordsToFetch, recordsToRefresh, queriesToFetch,
               inFlightContext, inFlightRemoteCalls,
               inFlightCallbacks, inFlightRequest >>

obsVars == << batch, outcome, pageLog, callbackLog, scheduled, lastSent >>

\* ------------------------------------------------------------- Connection

\* A callMethod that numbers its calls across batches.
callMethodCounted(queue, name, args) ==
    Append(queue, MethodCall(name, args, DecStr(args.id - 1)))

\* callMethod: the tag is the queue's length at append time.
callMethod(queue, name, args) ==
    Append(queue, MethodCall(name, args, DecStr(Len(queue))))

getPreviousMethodId(queue) == DecStr(Len(queue) - 1)

\* refreshType with ids == null: <Type>/changes and two <Type>/get calls
\* that both refer to the changes call.
refreshType(queue, typeId, base) ==
    LET q1 == callMethod(queue, typeId \o "/changes", Args(base + 1, NoRef))
        methodId == getPreviousMethodId(q1)
        q2 == callMethod(q1, typeId \o "/get", Args(base + 2, methodId))
    IN  callMethod(q2, typeId \o "/get", Args(base + 3, methodId))

\* The fetch handler of MessageThread: Email/get, Thread/get, Email/get,
\* each referring to the call before it.
fetchMessageThread(queue, base) ==
    LET q1 == callMethod(queue, "Email/get", Args(base + 1, NoRef))
        q2 == callMethod(q1, "Thread/get", Args(base + 2, getPreviousMethodId(q1)))
    IN  callMethod(q2, "Email/get", Args(base + 3, getPreviousMethodId(q2)))

\* Calls each pending entry will add when the batch is materialised.
RefreshCost == 3
ThreadCost == 3

PendingCost ==
    RefreshCost * Cardinality(typesToRefresh) + ThreadCost * Cardinality(recordsToFetch)

\* fetchType: one <Type>/get call.
fetchType(queue, typeId, base) ==
    callMethod(queue, typeId \o "/get", Args(base + 1, NoRef))

\* The refresh handler of Message, given ids: one Email/get call.
refreshMessage(queue, base) ==
    callMethod(queue, "Email/get", Args(base + 1, NoRef))

\* A query fetcher: one <Type>/query call.
fetchQueryHandler(queue, base) ==
    callMethod(queue, "Email/query", Args(base + 1, NoRef))

\* The stages of makeRequest; each takes and gives the send queue and the
\* number of payloads handed out.
Stage(queue, n) == [queue |-> queue, issued |-> n]

After(st, queue) == Stage(queue, st.issued + (Len(queue) - Len(st.queue)))

QueryFetches(st) ==
    IF queriesToFetch # {}
    THEN After(st, fetchQueryHandler(st.queue, st.issued)) ELSE st

TypeRefreshes(st) ==
    IF "CalendarEvent" \in typesToRefresh
    THEN After(st, refreshType(st.queue, "CalendarEvent", st.issued)) ELSE st

RecordRefreshes(st) ==
    IF "Message" \in recordsToRefresh
    THEN After(st, refreshMessage(st.queue, st.issued)) ELSE st

\* The fetch handler of Message ignores ids == null.
TypeFetches(st) ==
    IF "CalendarEvent" \in typesToFetch
    THEN After(st, fetchType(st.queue, "CalendarEvent", st.issued)) ELSE st

RecordFetches(st) ==
    IF "MessageThread" \in recordsToFetch
    THEN After(st, fetchMessageThread(st.queue, st.issued)) ELSE st

\* A makeRequest that runs the record fetches before the type fetches.
makeRequestSwapped ==
    LET st == TypeFetches(RecordFetches(RecordRefreshes(TypeRefreshes(
                  QueryFetches(Stage(sendQueue, issued))))))
    IN  [calls |-> st.queue, callbacks |-> callbackQueue, issued |-> st.issued]

\* makeRequest: drain the pending queues into the send queue (query
\* fetches, type refreshes, record refreshes, type fetches, record fetches)
\* and hand over the send queue and the callback queue.
makeRequest ==
    LET st == RecordFetches(TypeFetches(RecordRefreshes(TypeRefreshes(
                  QueryFetches(Stage(sendQueue, issued))))))
    IN  [calls |-> st.queue, callbacks |-> callbackQueue, issued |-> st.issued]

\* ---------------------------------------------------------------- paging

\* The end (exclusive, 0-based) of the page that starts at `start`: while
\* the call at the tentative end carries a result reference, and the page
\* would keep more than one call, move the end back by one.
RECURSIVE ShrinkEnd(_, _, _)
ShrinkEnd(remoteCalls, start, end) ==
    IF end > start + 1 /\ hasResultReference(remoteCalls[end + 1])
    THEN ShrinkEnd(remoteCalls, start, end - 1)
    ELSE end

PageEnd(remoteCalls, start, max) ==
    LET end == start + max
    IN  IF end < Len(remoteCalls) THEN ShrinkEnd(remoteCalls, start, end) ELSE end

\* remoteCalls.slice( start, end )
Slice(remoteCalls, start, end) ==
    LET to == IF end < Len(remoteCalls) THEN end ELSE Len(remoteCalls)
    IN  IF start >= to THEN << >> ELSE SubSeq(remoteCalls, start + 1, to)

Context(createdIds, doneCount, sentCount) ==
    [createdIds |-> createdIds, doneCount |-> doneCount, sentCount |-> sentCount]

\* The context send() works with: the one at hand, or a new one when the
\* batch is longer than maxCallsInRequest.
ContextForSend(context, remoteCalls, max) ==
    IF context = Null /\ Len(remoteCalls) > max
    THEN Some(Context("{}", 0, 0))
    ELSE context

\* A page that starts after the calls sent last, answered or not.
PageOfAdvanced(context, remoteCalls, max) ==
    IF context = Null THEN remoteCalls
    ELSE LET start == Val(context).doneCount + Val(context).sentCount
         IN  IF start + max < Len(remoteCalls)
             THEN SubSeq(remoteCalls, start + 1, start + max)
             ELSE SubSeq(remoteCalls, start + 1, Len(remoteCalls))

\* The calls of the HTTP request send() makes.
PageOf(context, remoteCalls, max) ==
    IF context = Null THEN remoteCalls
    ELSE LET start == Val(context).doneCount
         IN  Slice(remoteCalls, start, PageEnd(remoteCalls, start, max))

Request(methodCalls, createdIds) ==
    [methodCalls |-> methodCalls, createdIds |-> createdIds]

\* A send() that does not look at inFlightRequest.
CanSendUngated == authReady

\* send() returns early while a request is in flight or auth vetoes.
CanSend == inFlightRequest = Null /\ authReady

\* The rest of send(), once the batch `remoteCalls` is in flight.
Submit(remoteCalls) ==
    LET context == ContextForSend(inFlightContext, remoteCalls, maxCallsInRequest)
        page == PageOf(context, remoteCalls, maxCallsInRequest)
        request == Request(page,
                       IF context = Null THEN "undefined"
                       ELSE Val(context).createdIds)
    IN  /\ inFlightContext' =
              IF context = Null THEN Null
              ELSE Some([Val(context) EXCEPT !.sentCount = Len(page)])
        /\ inFlightRequest' = Some(request)
        /\ lastSent' = Some(request)
        /\ outstanding' = outstanding + 1

\* send, run from the 'after' queue of the run loop.
Send ==
    /\ sendQueued
    /\ middleQueue = << >>
    /\ sendQueued' = FALSE
    /\ UNCHANGED pure
    /\ UNCHANGED << willRetry, maxCallsInRequest, authReady, middleQueue,
                    ioStatus, ioData, registered, scheduled >>
    /\ IF ~CanSend
       THEN UNCHANGED << connVars, outstanding, issued, batch, outcome,
                         pageLog, callbackLog, lastSent >>
       ELSE IF inFlightRemoteCalls # Null
       THEN /\ Submit(Val(inFlightRemoteCalls))
            /\ outcome' = IF outcome = "kept" THEN "resent" ELSE "inflight"
            /\ UNCHANGED << sendQueue, callbackQueue, typesToRefresh,
                            typesToFetch, recordsToFetch, recordsToRefresh, queriesToFetch,
                            inFlightRemoteCalls,
                            inFlightCallbacks, issued, batch, pageLog,
                            callbackLog >>
       ELSE LET request == makeRequest
            IN  /\ sendQueue' = << >>
                /\ callbackQueue' = << >>
                /\ typesToRefresh' = {}
                /\ typesToFetch' = {}
                /\ recordsToFetch' = {}
                /\ recordsToRefresh' = {}
                /\ queriesToFetch' = {}
                /\ issued' = request.issued
                /\ IF request.calls = << >>
                   THEN UNCHANGED << inFlightContext, inFlightRemoteCalls,
                                     inFlightCallbacks, inFlightRequest,
                                     outstanding, batch, outcome, pageLog,
                                     callbackLog, lastSent >>
                   ELSE /\ inFlightRemoteCalls' = Some(request.calls)
                        /\ inFlightCallbacks' = Some(request.callbacks)
                        /\ Submit(request.calls)
                        /\ batch' = Some([calls |-> request.calls,
                                          callbacks |-> request.callbacks])
                        /\ outcome' = "inflight"
                        /\ pageLog' = << >>
                        /\ callbackLog' = << >>

\* ------------------------------------------------------ response dispatch

\* The names the response registry holds a handler for; "Thread/get" has
\* none.
ResponseHandlers ==
    {"error", "Email/get", "Email/changes", "Email/set", "Email/copy",
     "CalendarEvent/get", "CalendarEvent/changes", "CalendarEvent/set",
     "CalendarEvent/copy", "threads", "threadUpdates"}

\* One handler call: handler.call( this, response[1], request[0], request[1] ).
HandlerCall(response, request) ==
    [handler |-> response.name, args |-> response.args,
     requestName |-> request.name, requestArgs |-> request.args]

\* A request looked up in the page that was sent, not in the batch.
RequestForInPage(response, remoteCalls) ==
    IF inFlightRequest = Null THEN Null
    ELSE AtIndex(Val(inFlightRequest).methodCalls, ToNumber(response.tag))

\* The request a response is matched with: remoteCalls[ +id ].
RequestFor(response, remoteCalls) == AtIndex(remoteCalls, ToNumber(response.tag))

\* handleResponses: the handler calls made, in order. A response whose name
\* has no handler is skipped; one whose tag selects no request raises a
\* TypeError inside the try block and calls nothing.
RECURSIVE handleResponses(_, _)
handleResponses(data, remoteCalls) ==
    IF data = << >> THEN << >>
    ELSE LET response == Head(data)
             request == RequestFor(response, remoteCalls)
         IN  (IF response.name \in ResponseHandlers /\ request # Null
              THEN << HandlerCall(response, Val(request)) >>
              ELSE << >>)
             \o handleResponses(Tail(data), remoteCalls)

\* methodResponses.find( matchingResponse ) || NO_RESPONSE
RECURSIVE FindResponse(_, _)
FindResponse(methodResponses, id) ==
    IF methodResponses = << >> THEN NO_RESPONSE
    ELSE IF Head(methodResponses).tag = id THEN Head(methodResponses)
    ELSE FindResponse(Tail(methodResponses), id)

\* A tuple of the callback queue. fn.id stands for the function, fn.for for
\* the payload of the call it was passed along with (0: with none).
Callback(tag, fn) == [tag |-> tag, fn |-> fn]

Fn(id, for) == [id |-> id, for |-> for]

\* What RunLoop.queueFn( 'middle', callback ) is given for one tuple.
BoundCallback(tuple, methodResponses, methodCalls) ==
    IF tuple.tag # ""
    THEN LET request == AtIndex(methodCalls, ToNumber(tuple.tag))
             response == FindResponse(methodResponses, tuple.tag)
         IN  [fn |-> tuple.fn, bound |-> TRUE, args |-> response.args,
              name |-> response.name,
              requestArgs |-> IF request = Null THEN Args(NaN, NoRef)
                              ELSE Val(request).args]
    ELSE [fn |-> tuple.fn, bound |-> FALSE, args |-> NO_RESPONSE.args,
          name |-> "", requestArgs |-> Args(0, NoRef)]

\* processCallbacks: the callbacks queued on the run loop, in order.
processCallbacks(callbacks, methodResponses, methodCalls) ==
    [i \in 1..Len(callbacks) |->
        BoundCallback(callbacks[i], methodResponses, methodCalls)]

RECURSIVE CountUp(_, _)
CountUp(counts, queued) ==
    IF queued = << >> THEN counts
    ELSE CountUp([counts EXCEPT ![Head(queued).fn.id] = @ + 1], Tail(queued))

\* A test that still sees a page pending after the last one.
MorePagesInclusive(context, remoteCalls) ==
    /\ context # Null
    /\ Val(context).doneCount + Val(context).sentCount <= Len(remoteCalls)

\* An ioDidSucceed that takes every page for the last one.
MorePagesNever(context, remoteCalls) == FALSE

\* doneCount + sentCount < inFlightRemoteCalls.length
MorePages(context, remoteCalls) ==
    /\ context # Null
    /\ Val(context).doneCount + Val(context).sentCount < Len(remoteCalls)

\* ------------------------------------------------------------------ server

\* Whether the server can resolve the result reference of `call` within the
\* request it arrived in.
Resolves(call, methodCalls) ==
    \/ ~hasResultReference(call)
    \/ \E i \in 1..Len(methodCalls) :
          /\ methodCalls[i].tag = call.args.ref
          /\ \E j \in 1..Len(methodCalls) : j > i /\ methodCalls[j] = call

\* The answer of a server that works: one response per call, in order, an
\* error for a call whose result reference is not in the request.
FaithfulResponse(call, methodCalls) ==
    IF Resolves(call, methodCalls)
    THEN MethodResponse(call.name, "ok", call.args.id, call.tag)
    ELSE MethodResponse("error", "invalidResultReference", call.args.id, call.tag)

Faithful(methodCalls) ==
    [i \in 1..Len(methodCalls) |-> FaithfulResponse(methodCalls[i], methodCalls)]

Reverse(s) == [i \in 1..Len(s) |-> s[Len(s) + 1 - i]]

\* The method responses a server may give to a request: the faithful ones,
\* in either order or with the last one left out; the first one turned into
\* a serverUnavailable error, or given a tag the batch does not hold.
ServerResponses(methodCalls) ==
    LET n == Len(methodCalls)
        full == Faithful(methodCalls)
    IN  { full, Reverse(full) }
        \cup (IF n = 0 THEN {} ELSE
              { SubSeq(full, 1, n - 1),
                [full EXCEPT ![1] = MethodResponse("error", "serverUnavailable",
                                        full[1].args.of, full[1].tag)],
                [full EXCEPT ![1].tag = "9"] })

\* The body of a 200 response.
ServerData(methodCalls) ==
    { [methodResponses |-> Some(r), createdIds |-> c] :
        r \in ServerResponses(methodCalls), c \in {"ids"} }
    \cup { [methodResponses |-> Null, createdIds |-> "undefined"] }

\* ------------------------------------------------------------ io handlers

\* No io event has been delivered for the request in flight.
NoStatus == -1

answered == ioStatus # NoStatus

\* An io event is dispatched when the run loop has nothing queued.
RunLoopIdle == ~sendQueued /\ middleQueue = << >>

\* A test that takes 'every' method response, where the code takes 'some'.
TreatedAsFailureEvery(data) ==
    /\ \/ data.methodResponses = Null
       \/ \A i \in 1..Len(Val(data.methodResponses)) :
             serverUnavailable(Val(data.methodResponses)[i])
    /\ willRetry

\* The 200 response is treated as a connection failure.
TreatedAsFailure(data) ==
    /\ \/ data.methodResponses = Null
       \/ \E i \in 1..Len(Val(data.methodResponses)) :
             serverUnavailable(Val(data.methodResponses)[i])
    /\ willRetry

PageEntry(sent, responses, calls) ==
    [sent |-> sent, responses |-> responses, calls |-> calls]

\* ioDidSucceed
IoDidSucceed(data) ==
    /\ outstanding > 0 /\ ~answered /\ RunLoopIdle
    /\ inFlightRequest # Null /\ inFlightRemoteCalls # Null
    /\ ioStatus' = 200
    /\ ioData' = Some(data)
    /\ UNCHANGED pure
    /\ UNCHANGED << sendQueue, callbackQueue, typesToRefresh, typesToFetch,
                    recordsToFetch, recordsToRefresh, queriesToFetch,
                    inFlightRequest, willRetry,
                    maxCallsInRequest, sendQueued, outstanding, issued,
                    registered, batch, callbackLog, lastSent >>
    /\ IF TreatedAsFailure(data)
       THEN \* auth.connectionFailed( this )
            /\ authReady' = FALSE
            /\ outcome' = "kept"
            /\ UNCHANGED << inFlightContext, inFlightRemoteCalls,
                            inFlightCallbacks, middleQueue, pageLog,
                            scheduled >>
       ELSE LET methodResponses ==
                    IF data.methodResponses = Null THEN << >>
                    ELSE Val(data.methodResponses)
                remoteCalls == Val(inFlightRemoteCalls)
                calls == handleResponses(methodResponses, remoteCalls)
                queued == processCallbacks(Val(inFlightCallbacks),
                              methodResponses, remoteCalls)
            IN  /\ authReady' = TRUE
                /\ pageLog' = Append(pageLog,
                       PageEntry(Val(inFlightRequest).methodCalls,
                                 methodResponses, calls))
                /\ IF MorePages(inFlightContext, remoteCalls)
                   THEN /\ inFlightContext' =
                              Some([Val(inFlightContext) EXCEPT
                                  !.doneCount = @ + Val(inFlightContext).sentCount,
                                  !.createdIds = data.createdIds])
                        /\ UNCHANGED << inFlightRemoteCalls, inFlightCallbacks,
                                        middleQueue, scheduled, outcome >>
                   ELSE /\ middleQueue' = middleQueue \o queued
                        /\ scheduled' = CountUp(scheduled, queued)
                        /\ inFlightContext' = Null
                        /\ inFlightRemoteCalls' = Null
                        /\ inFlightCallbacks' = Null
                        /\ outcome' = "completed"

\* The HTTP statuses ioDidFail tells apart; 0 stands for a timeout, an
\* abort or any other failure.
Statuses == {400, 413, 500, 401, 404, 429, 502, 503, 504, 0}

\* A switch without the case for 500.
DiscardRequestNot500(status) ==
    \/ status \in {400, 413}
    \/ status \notin {401, 404, 429, 502, 503, 504} /\ ~willRetry

\* discardRequest, as the switch of ioDidFail leaves it.
DiscardRequest(status) ==
    \/ status \in {400, 413, 500}
    \/ status \notin {401, 404, 429, 502, 503, 504} /\ ~willRetry

\* ioDidFail
IoDidFail(status) ==
    /\ outstanding > 0 /\ ~answered /\ RunLoopIdle
    /\ inFlightRequest # Null /\ inFlightRemoteCalls # Null
    /\ ioStatus' = status
    /\ ioData' = Null
    /\ UNCHANGED pure
    /\ UNCHANGED << sendQueue, callbackQueue, typesToRefresh, typesToFetch,
                    recordsToFetch, recordsToRefresh, queriesToFetch,
                    inFlightRequest, inFlightContext,
                    willRetry, maxCallsInRequest, sendQueued, outstanding,
                    issued, registered, batch, pageLog, callbackLog,
                    lastSent >>
    /\ IF DiscardRequest(status)
       THEN LET queued == processCallbacks(Val(inFlightCallbacks), << >>,
                              Val(inFlightRemoteCalls))
            IN  /\ middleQueue' = middleQueue \o queued
                /\ scheduled' = CountUp(scheduled, queued)
                /\ inFlightRemoteCalls' = Null
                /\ inFlightCallbacks' = Null
                /\ outcome' = "discarded"
                /\ UNCHANGED authReady
       ELSE \* didLoseAuthentication, fetchSession or connectionFailed:
            \* auth holds the connection back until it retries.
            /\ authReady' = FALSE
            /\ outcome' = "kept"
            /\ UNCHANGED << inFlightRemoteCalls, inFlightCallbacks,
                            middleQueue, scheduled >>

\* io:success, with what the server answered to the request in flight.
IoSuccess ==
    /\ inFlightRequest # Null
    /\ \E data \in ServerData(Val(inFlightRequest).methodCalls) : IoDidSucceed(data)

\* io:failure or io:abort
IoFailure == \E status \in Statuses : IoDidFail(status)

\* ioDidEnd: clear inFlightRequest and queue send().
IoDidEnd ==
    /\ answered
    /\ ioStatus' = NoStatus
    /\ ioData' = Null
    /\ outstanding' = outstanding - 1
    /\ inFlightRequest' = Null
    /\ sendQueued' = TRUE
    /\ UNCHANGED pure
    /\ UNCHANGED << sendQueue, callbackQueue, typesToRefresh, typesToFetch,
                    recordsToFetch, recordsToRefresh, queriesToFetch,
                    inFlightContext, inFlightRemoteCalls,
                    inFlightCallbacks, willRetry, maxCallsInRequest,
                    authReady, middleQueue, issued, registered, obsVars >>

\* The 'middle' phase of the run loop: the queued callbacks run, in order.
RunCallbacks ==
    /\ middleQueue # << >> /\ ~answered
    /\ callbackLog' = callbackLog \o middleQueue
    /\ middleQueue' = << >>
    /\ UNCHANGED pure
    /\ UNCHANGED << connVars, willRetry, maxCallsInRequest, authReady,
                    sendQueued, outstanding, ioStatus, ioData, issued, registered,
                    batch, outcome, pageLog, scheduled, lastSent >>

\* auth is ready again (re-authenticated, session fetched, back-off over)
\* and calls send() on the connection it held back.
AuthRetry ==
    /\ ~authReady /\ ~answered
    /\ authReady' = TRUE
    /\ sendQueued' = TRUE
    /\ UNCHANGED pure
    /\ UNCHANGED << connVars, willRetry, maxCallsInRequest, middleQueue,
                    outstanding, ioStatus, ioData, issued, registered, obsVars >>

\* ------------------------------------------------------------- application

MethodNames == {"Email/get"}

\* Push a callback, when one is given.
PushCallback(queue, tag, for, given) ==
    IF given THEN Append(queue, Callback(tag, Fn(registered + 1, for))) ELSE queue

\* The application (or a callback) runs between events of the transport.
\* What was observed of a batch that is over is dropped when the
\* application moves on.
AppUnchanged ==
    /\ ~answered /\ middleQueue = << >>
    /\ UNCHANGED pure
    /\ UNCHANGED << inFlightContext, inFlightRemoteCalls, inFlightCallbacks,
                    inFlightRequest, willRetry, maxCallsInRequest, authReady,
                    middleQueue, outstanding, ioStatus, ioData, scheduled >>
    /\ IF outcome \in {"completed", "discarded"}
       THEN /\ batch' = Null
            /\ outcome' = "none"
            /\ pageLog' = << >>
            /\ callbackLog' = << >>
            /\ lastSent' = Null
       ELSE UNCHANGED << batch, outcome, pageLog, callbackLog, lastSent >>

\* callMethod( name, args, callback ); `back` > 0 gives args a result
\* reference to the call `back` places before this one.
CallMethod(name, back, given) ==
    /\ issued + PendingCost < MaxCalls
    /\ given => registered < MaxCallbacks
    /\ back <= Len(sendQueue)
    /\ back > 0 => name = "Email/get"
    /\ LET ref == IF back = 0 THEN NoRef ELSE DecStr(Len(sendQueue) - back)
           queue == callMethod(sendQueue, name, Args(issued + 1, ref))
       IN  /\ sendQueue' = queue
           /\ callbackQueue' = PushCallback(callbackQueue, queue[Len(queue)].tag,
                                   issued + 1, given)
    /\ issued' = issued + 1
    /\ registered' = IF given THEN registered + 1 ELSE registered
    /\ sendQueued' = TRUE
    /\ UNCHANGED << typesToRefresh, typesToFetch, recordsToFetch,
                    recordsToRefresh, queriesToFetch >>
    /\ AppUnchanged

\* addCallback( callback )
AddCallback ==
    /\ registered < MaxCallbacks
    /\ callbackQueue' = PushCallback(callbackQueue, "", 0, TRUE)
    /\ registered' = registered + 1
    /\ UNCHANGED << sendQueue, typesToRefresh, typesToFetch, recordsToFetch,
                    recordsToRefresh, queriesToFetch,
                    sendQueued, issued >>
    /\ AppUnchanged

\* _fetchRecords, as fetchRecord, fetchAllRecords and refreshRecord reach it.
FetchRecords(typeId, ids, refresh, given) ==
    /\ given => registered < MaxCallbacks
    /\ \/ /\ ids /\ ~refresh /\ typeId = "MessageThread"
          /\ typeId \notin recordsToFetch
          /\ issued + PendingCost + ThreadCost <= MaxCalls
          /\ recordsToFetch' = recordsToFetch \cup {typeId}
          /\ UNCHANGED << typesToRefresh, typesToFetch >>
       \/ /\ ~ids /\ refresh /\ typeId = "CalendarEvent"
          /\ typeId \notin typesToRefresh
          /\ issued + PendingCost + RefreshCost <= MaxCalls
          /\ typesToRefresh' = typesToRefresh \cup {typeId}
          /\ UNCHANGED << recordsToFetch, typesToFetch >>
       \/ /\ ~ids /\ ~refresh /\ typeId = "Message"
          /\ typeId \notin typesToFetch
          /\ typesToFetch' = typesToFetch \cup {typeId}
          /\ UNCHANGED << recordsToFetch, typesToRefresh >>
    /\ UNCHANGED << recordsToRefresh, queriesToFetch >>
    /\ callbackQueue' = PushCallback(callbackQueue, "", 0, given)
    /\ registered' = IF given THEN registered + 1 ELSE registered
    /\ sendQueued' = TRUE
    /\ UNCHANGED << sendQueue, issued >>
    /\ AppUnchanged

\* hasRequests()
hasRequests ==
    \/ inFlightRemoteCalls # Null
    \/ Len(sendQueue) > 0
    \/ queriesToFetch # {}
    \/ recordsToFetch # {}
    \/ recordsToRefresh # {}

\* ----------------------------------------------------------- specification

Idle ==
    /\ sendQueue = << >>
    /\ callbackQueue = << >>
    /\ typesToRefresh = {}
    /\ typesToFetch = {}
    /\ recordsToFetch = {}
    /\ recordsToRefresh = {}
    /\ queriesToFetch = {}
    /\ inFlightContext = Null
    /\ inFlightRemoteCalls = Null
    /\ inFlightCallbacks = Null
    /\ inFlightRequest = Null
    /\ willRetry \in BOOLEAN
    /\ maxCallsInRequest \in 1..MaxPage
    /\ authReady = TRUE
    /\ sendQueued = FALSE
    /\ middleQueue = << >>
    /\ outstanding = 0
    /\ ioStatus = NoStatus
    /\ ioData = Null
    /\ issued = 0
    /\ registered = 0
    /\ batch = Null
    /\ outcome = "none"
    /\ pageLog = << >>
    /\ callbackLog = << >>
    /\ scheduled = [fn \in 1..MaxCallbacks |-> 0]
    /\ lastSent = Null

Init ==
    /\ Idle
    /\ pure = Null

Next ==
    \/ \E name \in MethodNames, back \in 0..2, given \in BOOLEAN :
          CallMethod(name, back, given)
    \/ AddCallback
    \/ \E typeId \in {"MessageThread", "CalendarEvent", "Message"},
          ids \in BOOLEAN, refresh \in BOOLEAN, given \in BOOLEAN :
          FetchRecords(typeId, ids, refresh, given)
    \/ Send
    \/ IoSuccess
    \/ IoFailure
    \/ IoDidEnd
    \/ RunCallbacks
    \/ AuthRetry

Spec == Init /\ [][Next]_vars

\* ----------------------------------------------- one tick of appended work

\* The send queue after n direct calls of callMethod.
RECURSIVE DirectCalls(_)
DirectCalls(n) ==
    IF n = 0 THEN << >>
    ELSE callMethod(DirectCalls(n - 1), "Email/set", Args(n, NoRef))

\* An idle connection at the end of a run-loop tick in which the
\* application called callMethod, fetchQuery, fetchAllRecords, fetchRecord
\* and refreshRecord in any combination: send() is due.
InitTick ==
    /\ \E n \in 0..MaxDirect : sendQueue = DirectCalls(n) /\ issued = n
    /\ \E given \in BOOLEAN :
          /\ callbackQueue = IF given THEN << Callback("", Fn(1, 0)) >> ELSE << >>
          /\ registered = IF given THEN 1 ELSE 0
    /\ queriesToFetch \in SUBSET {"q1"}
    /\ typesToRefresh \in SUBSET {"CalendarEvent"}
    /\ recordsToRefresh \in SUBSET {"Message"}
    /\ typesToFetch \in SUBSET {"Message", "CalendarEvent"}
    /\ recordsToFetch \in SUBSET {"MessageThread"}
    /\ inFlightContext = Null
    /\ inFlightRemoteCalls = Null
    /\ inFlightCallbacks = Null
    /\ inFlightRequest = Null
    /\ willRetry \in BOOLEAN
    /\ maxCallsInRequest \in 1..MaxPage
    /\ authReady = TRUE
    /\ sendQueued = TRUE
    /\ middleQueue = << >>
    /\ outstanding = 0
    /\ ioStatus = NoStatus
    /\ ioData = Null
    /\ batch = Null
    /\ outcome = "none"
    /\ pageLog = << >>
    /\ callbackLog = << >>
    /\ scheduled = [fn \in 1..MaxCallbacks |-> 0]
    /\ lastSent = Null
    /\ pure = Null

SpecTick == InitTick /\ [][Send]_vars

\* ------------------------------------------------------------ JSON patches
\* A JSON value: kind is "undefined", "null", "boolean", "number", "string",
\* "array" or "object"; v names a boolean, a number or a string, which is
\* empty or counts as one character; fields is the set of << key, value >>
\* pairs of an object or an array. A key or a
\* path is a sequence of characters, where a unit such as "subject" stands
\* for a run of characters other than '/' and '~'.
JSON(kind, v, fields) == [kind |-> kind, v |-> v, fields |-> fields]

Undefined == JSON("undefined", "", {})

JNull == JSON("null", "", {})

\* The exception a strict-mode assignment to a property of a primitive
\* throws.
TypeError == JSON("TypeError", "", {})

\* if ( object ): false for undefined, null, 0 and ''.
Truthy(object) ==
    \/ object.kind \in {"object", "array"}
    \/ object.kind = "boolean" /\ object.v = "true"
    \/ object.kind = "number" /\ object.v # "0"
    \/ object.kind = "string" /\ object.v # ""

\* for ( key in object ): the enumerable keys; a string has its indices.
Keys(object) ==
    IF object.kind = "string"
    THEN (IF object.v = "" THEN {} ELSE {<< "0" >>})
    ELSE {e[1] : e \in object.fields}

\* object[ key ]
Get(object, key) ==
    IF key \notin Keys(object) THEN Undefined
    ELSE IF object.kind = "string" THEN object
    ELSE (CHOOSE e \in object.fields : e[1] = key)[2]

\* object[ key ] = value, and delete object[ key ] for value = Undefined;
\* a primitive cannot take a property and a string cannot lose an index
Set(object, key, value) ==
    IF value = TypeError THEN TypeError
    ELSE IF object.kind \in {"object", "array"}
    THEN [object EXCEPT !.fields = {e \in @ : e[1] # key} \cup
              (IF value = Undefined THEN {} ELSE {<< key, value >>})]
    ELSE IF value = Undefined /\ key \notin Keys(object) THEN object
    ELSE TypeError

\* path.indexOf( '/' )
indexOf(path, ch) ==
    IF \E i \in 1..Len(path) : path[i] = ch
    THEN (CHOOSE i \in 1..Len(path) :
              path[i] = ch /\ \A j \in 1..(i - 1) : path[j] # ch) - 1
    ELSE -1

\* string.replace( /pattern/g, replacement )
RECURSIVE replace(_, _, _)
replace(string, pattern, replacement) ==
    IF Len(string) < Len(pattern) THEN string
    ELSE IF SubSeq(string, 1, Len(pattern)) = pattern
    THEN replacement \o
         replace(SubSeq(string, Len(pattern) + 1, Len(string)), pattern,
                 replacement)
    ELSE << string[1] >> \o replace(Tail(string), pattern, replacement)

unescapeTildeFirst(key) ==
    replace(replace(key, << "~", "0" >>, << "~" >>), << "~", "1" >>, << "/" >>)

\* key.replace( /~1/g, '/' ).replace( /~0/g, '~' ) in applyPatch
unescape(key) ==
    replace(replace(key, << "~", "1" >>, << "/" >>), << "~", "0" >>, << "~" >>)

\* key.replace( /~/g, '~0' ).replace( /\//g, '~1' ) in makePatches
escape(key) ==
    replace(replace(key, << "~" >>, << "~", "0" >>), << "/" >>, << "~", "1" >>)

\* applyPatch changes object in place; here it gives the object afterwards.
RECURSIVE applyPatch(_, _, _)
applyPatch(object, path, patch) ==
    IF ~Truthy(object) THEN object
    ELSE LET slash == indexOf(path, "/")
             key == unescape(IF slash > -1 THEN SubSeq(path, 1, slash)
                                           ELSE path)
             inner == applyPatch(Get(object, key),
                                 SubSeq(path, slash + 2, Len(path)), patch)
         IN IF slash > -1
            THEN (IF inner = TypeError THEN TypeError
                  ELSE IF object.kind \in {"object", "array"} /\
                          key \in Keys(object)
                  THEN Set(object, key, inner)
                  ELSE object)
            ELSE Set(object, key, IF patch # JNull THEN patch ELSE Undefined)

\* O.isEqual
isEqual(a, b) == a = b

\* patches, a set of << path, value >> pairs, with the entries of more
\* written over it
Assign(patches, more) ==
    {e \in patches : \A m \in more : m[1] # e[1]} \cup more

RECURSIVE makePatchesOfCurrent(_, _, _, _)
makePatchesOfCurrent(path, patches, original, current) ==
    IF Truthy(original) /\ Truthy(current) /\ current.kind = "object"
    THEN Assign(patches,
             UNION {makePatchesOfCurrent(path \o << "/" >> \o escape(key), {},
                                         Get(original, key),
                                         Get(current, key)) :
                    key \in Keys(current)})
    ELSE IF original # current
    THEN Assign(patches, {<< path, IF current # Undefined THEN current
                                                          ELSE JNull >>})
    ELSE patches

\* makePatches fills patches in place; here it gives patches afterwards.
RECURSIVE makePatches(_, _, _, _)
makePatches(path, patches, original, current) ==
    IF Truthy(original) /\ Truthy(current) /\ current.kind = "object"
    THEN Assign(patches,
             UNION {makePatches(path \o << "/" >> \o escape(key), {},
                                Get(original, key), Get(current, key)) :
                    key \in Keys(current)}
             \cup
             UNION {makePatches(path \o << "/" >> \o escape(key), {},
                                Get(original, key), JNull) :
                    key \in Keys(original) \ Keys(current)})
    ELSE IF ~isEqual(original, current)
    THEN Assign(patches, {<< path, IF current # Undefined THEN current
                                                          ELSE JNull >>})
    ELSE patches

\* applyPatch( object, path, value ) for every entry of patches
RECURSIVE applyPatches(_, _)
applyPatches(object, patches) ==
    IF patches = {} \/ object = TypeError THEN object
    ELSE LET e == CHOOSE e \in patches : TRUE
         IN applyPatches(applyPatch(object, e[1], e[2]), patches \ {e})

\* ------------------------------------------ patches made and applied again
Number(v) == JSON("number", v, {})

\* The plain objects with keys among keys and values among values.
Objects(keys, values) ==
    UNION {{JSON("object", "", {<< key, f[key] >> : key \in S}) :
            f \in [S -> values]} : S \in SUBSET keys}

Leaves ==
    {Number("1"), Number("0"), JNull, JSON("string", "a", {}),
     JSON("array", "", {<< << "0" >>, Number("1") >>})}

Records ==
    Objects({<< "k" >>, << "~", "1" >>},
            Leaves \cup Objects({<< "/", "~" >>}, Leaves))

InitPatch ==
    /\ Idle
    /\ willRetry
    /\ maxCallsInRequest = 1
    /\ \E original, current \in Records \cup Leaves :
          /\ (original \in Records) = (current \in Records)
          /\ pure = [stage |-> "values", original |-> original,
                     current |-> current, patches |-> {},
                     relative |-> FALSE, patched |-> Undefined]

MakePatches ==
    /\ pure.stage = "values"
    /\ pure' = [pure EXCEPT !.stage = "patches",
                            !.patches = makePatches(<< >>, {}, pure.original,
                                                    pure.current)]
    /\ UNCHANGED program

\* The paths of patches without their leading '/'.
Relative(patches) ==
    {<< IF e[1] = << >> THEN << >> ELSE Tail(e[1]), e[2] >> : e \in patches}

ApplyPatches(relative) ==
    /\ pure.stage = "patches"
    /\ pure' = [pure EXCEPT !.stage = "patched",
                            !.relative = relative,
                            !.patched = applyPatches(pure.original,
                                IF relative THEN Relative(pure.patches)
                                            ELSE pure.patches)]
    /\ UNCHANGED program

SpecPatch ==
    InitPatch /\
    [][MakePatches \/ \E relative \in BOOLEAN : ApplyPatches(relative)]_vars

\* -------------------------------------------- a key written and read again
MaxKeyLen == 3

KeyStrings == UNION {[1..n -> {"~", "/", "0", "1"}] : n \in 0..MaxKeyLen}

Object(key, value) == JSON("object", "", {<< key, value >>})

RECURSIVE isValidPatchOfMissing(_, _)
isValidPatchOfMissing(object, path) ==
    IF object = Undefined THEN FALSE
    ELSE LET slash == indexOf(path, "/")
         IN IF slash = -1 THEN TRUE
            ELSE isValidPatchOfMissing(
                     Get(object, unescape(SubSeq(path, 1, slash))),
                     SubSeq(path, slash + 2, Len(path)))

RECURSIVE isValidPatch(_, _)
isValidPatch(object, path) ==
    IF ~Truthy(object) THEN FALSE
    ELSE LET slash == indexOf(path, "/")
         IN IF slash = -1 THEN TRUE
            ELSE isValidPatch(Get(object, unescape(SubSeq(path, 1, slash))),
                              SubSeq(path, slash + 2, Len(path)))

InitKey ==
    /\ Idle
    /\ willRetry
    /\ maxCallsInRequest = 1
    /\ \E key \in KeyStrings :
          pure = [stage |-> "key", key |-> key, patches |-> {},
                  patched |-> Undefined, valid |-> {}]

\* The attribute "a" of a record goes from {} to { key: 1 }.
WriteKey ==
    /\ pure.stage = "key"
    /\ pure' = [pure EXCEPT !.stage = "written",
                            !.patches = makePatches(<< "a" >>, {}, JSON("object", "", {}),
                                            Object(pure.key, Number("1")))]
    /\ UNCHANGED program

\* The patches are applied to a record { a: {} }, and each path, made longer
\* by one component, is looked up in the records { a: { other: {} } }.
ReadKey ==
    /\ pure.stage = "written"
    /\ pure' = [pure EXCEPT
                  !.stage = "read",
                  !.patched = applyPatches(Object(<< "a" >>, JSON("object", "", {})),
                                           pure.patches),
                  !.valid = {other \in KeyStrings :
                      \A e \in pure.patches :
                          isValidPatch(
                              Object(<< "a" >>, Object(other, JSON("object", "", {}))),
                              e[1] \o << "/", "z" >>)}]
    /\ UNCHANGED program

SpecKey == InitKey /\ [][WriteKey \/ ReadKey]_vars

\* ------------------------------------------------------- makeSetRequest
\* The patches of one record: the loop over the keys of change.
patchesOf(record, change, previous, noPatch) ==
    UNION {IF noPatch THEN {<< key, Get(record, key) >>}
           ELSE makePatches(key, {}, Get(previous, key), Get(record, key)) :
           key \in {k \in Keys(change) :
                        Truthy(Get(change, k)) /\ k # << "accountId" >>}}

makeUpdate(primaryKey, update, noPatch, isCopy) ==
    LET updates ==
            {<< IF isCopy THEN update.storeKeys[i]
                          ELSE Get(update.records[i], primaryKey),
                Assign(patchesOf(update.records[i], update.changes[i],
                                 IF noPatch THEN JNull
                                            ELSE update.committed[i],
                                 noPatch),
                       IF isCopy
                       THEN {<< primaryKey, update.copyFromIds[i] >>}
                       ELSE {}) >> : i \in 1..Len(update.records)}
    IN IF updates # {} THEN Some(updates) ELSE Null

makeSetRequest(change, noPatch) ==
    LET toCreate == IF Len(change.create.storeKeys) > 0
                    THEN Some([i \in 1..Len(change.create.storeKeys) |->
                                  << change.create.storeKeys[i],
                                     change.create.records[i] >>])
                    ELSE Null
        toUpdate == makeUpdate(change.primaryKey, change.update, noPatch,
                               FALSE)
        toDestroy == IF Len(change.destroy.ids) > 0
                     THEN Some(change.destroy.ids) ELSE Null
    IN IF toCreate # Null \/ toUpdate # Null \/ toDestroy # Null
       THEN Some([accountId |-> change.accountId, create |-> toCreate,
                  update |-> toUpdate, destroy |-> toDestroy])
       ELSE Null

String(v) == JSON("string", v, {})

Boolean(v) == JSON("boolean", v, {})

InitUpdate ==
    /\ Idle
    /\ willRetry
    /\ maxCallsInRequest = 1
    /\ LET Messages ==
               {JSON("object", "",
                     {<< << "id" >>, String("m7") >>,
                      << << "accountId" >>, account >>}
                     \cup subject \cup keywords) :
                account \in {String("A"), String("B")},
                subject \in {{}} \cup
                    {{<< << "subject" >>, String(s) >>} : s \in {"a", "b"}},
                keywords \in {{}} \cup
                    {{<< << "keywords" >>, k >>} :
                        k \in {JNull} \cup
                              Objects({<< "$seen" >>},
                                      {Boolean("true"), JNull})}}
           Marks == Objects({<< "accountId" >>, << "subject" >>,
                             << "keywords" >>}, {Boolean("true")})
       IN \E record, committed \in Messages, marks \in Marks,
             create, destroy \in BOOLEAN :
          pure = [stage |-> "change",
                  change |->
                      [accountId |-> "A",
                       primaryKey |-> << "id" >>,
                       create |->
                           [storeKeys |-> IF create THEN << "k1" >>
                                                    ELSE << >>,
                            records |-> IF create THEN << record >>
                                                  ELSE << >>],
                       update |->
                           [storeKeys |-> << "k2" >>,
                            records |-> << record >>,
                            changes |-> << marks >>,
                            committed |-> << committed >>,
                            copyFromIds |-> << >>],
                       destroy |->
                           [ids |-> IF destroy THEN << "m9" >> ELSE << >>]],
                  request |-> Null]

MakeSetRequest ==
    /\ pure.stage = "change"
    /\ pure' = [pure EXCEPT !.stage = "request",
                            !.request = makeSetRequest(pure.change, FALSE)]
    /\ UNCHANGED program

SpecUpdate == InitUpdate /\ [][MakeSetRequest]_vars

\* ------------------------------------------------------- response.error
\* requestName.slice( requestName.indexOf( '/' ) )
verbOf(requestName) ==
    LET slash == indexOf(requestName, "/")
    IN IF slash = -1 THEN SubSeq(requestName, Len(requestName),
                                 Len(requestName))
       ELSE SubSeq(requestName, slash + 1, Len(requestName))

errorFirstOnly(response, type, requestName) ==
    LET methods == << << "error_" >> \o requestName \o << "_", type >>,
                      << "error_" >> \o requestName,
                      << "error_" >> \o verbOf(requestName),
                      << "error_", type >> >>
        found == {i \in 1..4 : methods[i] \in response}
    IN IF found = {} THEN << >>
       ELSE << methods[CHOOSE i \in found : \A j \in found : i <= j] >>

\* The handlers response.error calls, in order, where response is the set
\* of the names that have a handler.
error(response, type, requestName) ==
    LET specific == << "error_" >> \o requestName \o << "_", type >>
        ofName == << "error_" >> \o requestName
        ofVerb == << "error_" >> \o verbOf(requestName)
        ofType == << "error_", type >>
    IN IF specific \in response THEN << specific >>
       ELSE (IF ofName \in response THEN << ofName >>
             ELSE IF ofVerb \in response THEN << ofVerb >>
             ELSE << >>) \o
            (IF ofType \in response THEN << ofType >> ELSE << >>)

InitError ==
    /\ Idle
    /\ willRetry
    /\ maxCallsInRequest = 1
    /\ \E response \in SUBSET
              {<< "error_", "Email", "/", "changes", "_",
                  "cannotCalculateChanges" >>,
               << "error_", "Email", "/", "set" >>,
               << "error_", "/", "set" >>,
               << "error_", "/", "changes" >>,
               << "error_", "accountNotFound" >>,
               << "error_", "cannotCalculateChanges" >>},
          requestName \in {<< "Email", "/", "set" >>,
                           << "Email", "/", "changes" >>,
                           << "Mailbox", "/", "set" >>},
          type \in {"cannotCalculateChanges", "accountNotFound"} :
          pure = [stage |-> "response", response |-> response,
                  requestName |-> requestName, type |-> type,
                  called |-> << >>, logged |-> FALSE]

\* A method response [ 'error', { type }, id ] is dispatched.
Error ==
    /\ pure.stage = "response"
    /\ LET called == error(pure.response, pure.type, pure.requestName)
       IN pure' = [pure EXCEPT !.stage = "handled", !.called = called,
                               !.logged = (called = << >>)]
    /\ UNCHANGED program

SpecError == InitError /\ [][Error]_vars

\* ------------------------------------------- errors of /set and /copy
\* A map whose values do not matter here is the set of its keys, as an
\* option value: Null stands for undefined and for null.
\* store.getStoreKey( accountId, Type, id )
getStoreKey(accountId, id) == << accountId, id >>

Keyed(accountId, ids) == {getStoreKey(accountId, id) : id \in ids}

\* The calls didCommit makes on the store, in order.
didCommit(args) ==
    (IF args.created # Null /\ Val(args.created) # {}
     THEN << [call |-> "sourceDidCommitCreate", keys |-> Val(args.created),
              errors |-> Null] >> ELSE << >>) \o
    (IF args.notCreated # Null /\ Val(args.notCreated) # {}
     THEN << [call |-> "sourceDidNotCreate", keys |-> Val(args.notCreated),
              errors |-> args.error] >> ELSE << >>) \o
    (IF args.updated # Null /\ Val(args.updated) # {}
     THEN << [call |-> "sourceDidCommitUpdate",
              keys |-> Keyed(args.accountId, Val(args.updated)),
              errors |-> Null] >> ELSE << >>) \o
    (IF args.notUpdated # Null /\ Val(args.notUpdated) # {}
     THEN << [call |-> "sourceDidNotUpdate",
              keys |-> Keyed(args.accountId, Val(args.notUpdated)),
              errors |-> args.error] >> ELSE << >>) \o
    (IF args.destroyed # Null /\ Val(args.destroyed) # {}
     THEN << [call |-> "sourceDidCommitDestroy",
              keys |-> Keyed(args.accountId, Val(args.destroyed)),
              errors |-> Null] >> ELSE << >>) \o
    (IF args.notDestroyed # Null /\ Val(args.notDestroyed) # {}
     THEN << [call |-> "sourceDidNotDestroy",
              keys |-> Keyed(args.accountId, Val(args.notDestroyed)),
              errors |-> args.error] >> ELSE << >>)

didCopy(args, requestArgs) ==
    IF requestArgs.onSuccessDestroyOriginal
    THEN (IF args.notCreated # Null
          THEN << [call |-> "sourceDidNotDestroy",
                   keys |-> {getStoreKey(args.fromAccountId, << "id of", k >>) :
                                k \in Val(args.notCreated)},
                   errors |-> Null] >>
          ELSE << >>) \o didCommit(args)
    ELSE << >>

\* fakeArgs of 'error_/set' and of 'error_/copy'
fakeArgs(args, requestName, requestArgs) ==
    LET NoArgs ==
            [accountId |-> "", fromAccountId |-> "undefined", error |-> Null,
             created |-> Null, notCreated |-> Null, updated |-> Null,
             notUpdated |-> Null, destroyed |-> Null, notDestroyed |-> Null]
    IN
    IF verbOf(requestName) = << "/", "set" >>
    THEN [NoArgs EXCEPT !.accountId = requestArgs.accountId,
                        !.error = Some(args),
                        !.notCreated = requestArgs.create,
                        !.notUpdated = requestArgs.update,
                        !.notDestroyed = requestArgs.destroy]
    ELSE [NoArgs EXCEPT !.accountId = requestArgs.accountId,
                        !.error = Some(args),
                        !.notCreated = requestArgs.create]

\* response[ 'Email/set' ] and response[ 'Email/copy' ], for arguments in
\* which no record is reported as alreadyExists
responseHandler(args, requestName, requestArgs) ==
    IF verbOf(requestName) = << "/", "set" >> THEN didCommit(args)
    ELSE didCopy(args, requestArgs)

MaxIds == 2

InitCommit ==
    /\ Idle
    /\ willRetry
    /\ maxCallsInRequest = 1
    /\ LET Ids(prefix) ==
               {Null} \cup
               {Some({<< prefix, i >> : i \in 1..n}) : n \in 0..MaxIds}
       IN
       \E requestName \in {<< "Email", "/", "set" >>,
                            << "Email", "/", "copy" >>},
          create \in Ids("k"), update \in Ids("u"), destroy \in Ids("d"),
          onSuccessDestroyOriginal \in BOOLEAN,
          type \in {"serverFail", "accountNotFound"} :
          /\ verbOf(requestName) = << "/", "copy" >> =>
                update = Null /\ destroy = Null
          /\ verbOf(requestName) = << "/", "set" >> =>
                ~onSuccessDestroyOriginal
          /\ pure = [stage |-> "error",
                     args |-> type,
                     requestName |-> requestName,
                     requestArgs |->
                        [accountId |-> "A", fromAccountId |-> "B",
                         create |-> create, update |-> update,
                         destroy |-> destroy,
                         onSuccessDestroyOriginal |->
                             onSuccessDestroyOriginal],
                     store |-> << >>]

\* 'error_/set' and 'error_/copy': the handler of the method is called with
\* fakeArgs.
ErrorOfCommit ==
    /\ pure.stage = "error"
    /\ pure' = [pure EXCEPT
                  !.stage = "handled",
                  !.store = responseHandler(
                                fakeArgs(pure.args, pure.requestName,
                                         pure.requestArgs),
                                pure.requestName, pure.requestArgs)]
    /\ UNCHANGED program

SpecCommit == InitCommit /\ [][ErrorOfCommit]_vars

\* ------------------------------------- Email/changes and threadUpdates
MaxResponses == 5

\* store.getTypeState( accountId, Message )
getTypeState(accountId) == << "state of", accountId >>

messageChangesSkipped(messageChangesMaxChanges) == 150

\* messageChangesMaxChanges after a response with hasMoreChanges below 150
messageChangesRaised(messageChangesMaxChanges) ==
    IF messageChangesMaxChanges = 50 THEN 100 ELSE 150

\* threadUpdateMaxChanges after a response with hasMoreUpdates below 120
threadUpdateRaised(threadUpdateMaxChanges) ==
    IF threadUpdateMaxChanges = 30 THEN 100 ELSE 120

allMessages(accountOf, accountId) == DOMAIN accountOf

\* The messages 'error_Email/changes_cannotCalculateChanges' marks obsolete.
messagesOf(accountOf, accountId) ==
    {message \in DOMAIN accountOf : accountOf[message] = accountId}

\* The call that tells the store it is in the new state.
sourceDidFetchUpdates(accountId, Type, updated, destroyed, oldState, newState) ==
    [call |-> "sourceDidFetchUpdates", accountId |-> accountId, Type |-> Type,
     updated |-> updated, destroyed |-> destroyed, oldState |-> oldState,
     newState |-> newState]

\* 'error_Email/changes_cannotCalculateChanges', given reqArgs.accountId
cannotCalculateChanges(state, accountId) ==
    [state EXCEPT
        !.obsolete = @ \cup messagesOf(state.accountOf, accountId),
        !.calls = @ \o << [call |-> "recalculateAllFetchedWindows"],
                           sourceDidFetchUpdates(accountId, "Message", Null,
                               Null, getTypeState(accountId), "") >>]

InitChanges ==
    /\ Idle
    /\ willRetry
    /\ maxCallsInRequest = 1
    /\ \E accountOf \in [{"m1", "m2", "m3"} -> {"A", "B"}] :
          pure = [messageChangesMaxChanges |-> 50,
                  threadUpdateMaxChanges |-> 30,
                  threadUpdateFetchRecords |-> TRUE,
                  accountOf |-> accountOf,
                  obsolete |-> {},
                  handler |-> "",
                  accountId |-> "",
                  hasMore |-> FALSE,
                  calls |-> << >>,
                  responses |-> 0]

\* What every handler does to the record of the response being handled.
Handling(handler, accountId, hasMore) ==
    [pure EXCEPT !.handler = handler, !.accountId = accountId,
                 !.hasMore = hasMore, !.calls = << >>,
                 !.responses = @ + 1]

\* response[ 'Email/changes' ]
EmailChanges(accountId, hasMoreChanges) ==
    /\ pure.responses < MaxResponses
    /\ LET fetched ==
               [Handling("Email/changes", accountId, hasMoreChanges) EXCEPT
                   !.calls = << sourceDidFetchUpdates(accountId, "Message",
                                    Null, Null, getTypeState(accountId),
                                    "newState") >>]
       IN pure' =
           IF hasMoreChanges
           THEN (IF pure.messageChangesMaxChanges < 150
                 THEN [fetched EXCEPT
                          !.messageChangesMaxChanges =
                              messageChangesRaised(@),
                          !.calls = @ \o
                              << [call |-> "fetchMoreChanges",
                                  accountId |-> accountId] >>]
                 ELSE [cannotCalculateChanges(fetched, accountId) EXCEPT
                          !.messageChangesMaxChanges = 50])
           ELSE [fetched EXCEPT !.messageChangesMaxChanges = 50]
    /\ UNCHANGED program

\* response[ 'error_Email/changes_cannotCalculateChanges' ], reached from
\* response.error
ErrorEmailChanges(accountId) ==
    /\ pure.responses < MaxResponses
    /\ pure' = cannotCalculateChanges(
                   Handling("error_Email/changes_cannotCalculateChanges",
                            accountId, FALSE), accountId)
    /\ UNCHANGED program

\* response.threadUpdates
ThreadUpdates(hasMoreUpdates) ==
    /\ pure.responses < MaxResponses
    /\ LET fetched ==
               [Handling("threadUpdates", "", hasMoreUpdates) EXCEPT
                   !.calls = << [call |-> "didFetchUpdates"] >>]
           reset == [fetched EXCEPT !.threadUpdateFetchRecords = TRUE,
                                    !.threadUpdateMaxChanges = 30]
       IN pure' =
           IF hasMoreUpdates
           THEN (IF pure.threadUpdateMaxChanges < 120
                 THEN [fetched EXCEPT
                          !.threadUpdateFetchRecords =
                              IF pure.threadUpdateMaxChanges = 30
                              THEN FALSE ELSE @,
                          !.threadUpdateMaxChanges = threadUpdateRaised(@),
                          !.calls = @ \o << [call |-> "fetchAll"] >>]
                 ELSE [reset EXCEPT
                          !.calls = @ \o
                              << [call |->
                                  "error_getThreadUpdates_cannotCalculateChanges"]
                              >>])
           ELSE reset
    /\ UNCHANGED program

SpecChanges ==
    InitChanges /\
    [][\/ \E accountId \in {"A", "B"}, hasMoreChanges \in BOOLEAN :
            EmailChanges(accountId, hasMoreChanges)
       \/ \E accountId \in {"A", "B"} : ErrorEmailChanges(accountId)
       \/ \E hasMoreUpdates \in BOOLEAN : ThreadUpdates(hasMoreUpdates)]_vars

\* ------------------------------------------------- handler registries
\* The registry property a key of the handlers object is stored in; "" for
\* a key that names no property, which makes it a response handler.
handleProps(action) ==
    CASE action = "precedence" -> "commitPrecedence"
      [] action = "fetch" -> "recordFetchers"
      [] action = "refresh" -> "recordRefreshers"
      [] action = "commit" -> "recordCommitters"
      [] action = "query" -> "queryFetchers"
      [] OTHER -> ""

\* The registries of Connection.prototype: commitPrecedence is null, the
\* record and query registries are empty, response holds the handlers of
\* the class; each registry is a set of << key, handler >> pairs.
prototype ==
    [commitPrecedence |-> Null,
     recordFetchers |-> Some({}),
     recordRefreshers |-> Some({}),
     recordCommitters |-> Some({}),
     queryFetchers |-> Some({}),
     response |-> Some({<< "error", "Connection" >>,
                        << "error_/set", "Connection" >>})]

\* this[ propName ][ key ]: the connection's own registry first, then the
\* object it was created from; "" where nothing is found.
lookup(registries, connection, propName, key) ==
    LET own == registries.own[connection][propName]
        shared == registries.shared[propName]
        in(object) == object # Null /\ \E e \in Val(object) : e[1] = key
        at(object) == (CHOOSE e \in Val(object) : e[1] = key)[2]
    IN  IF in(own) THEN at(own)
        ELSE IF in(shared) THEN at(shared)
        ELSE ""

handleShared(registries, connection, typeId, handlers) ==
    [registries EXCEPT !.shared =
        [propName \in DOMAIN @ |->
            LET more == {<< IF handleProps(h[1]) = "" THEN h[1] ELSE typeId,
                            h[2] >> :
                            h \in {e \in handlers :
                                (IF handleProps(e[1]) = "" THEN "response"
                                 ELSE handleProps(e[1])) = propName}}
            IN  IF more = {} THEN @[propName]
                ELSE Some(Assign(IF @[propName] = Null THEN {}
                                 ELSE Val(@[propName]), more))]]

\* handle( Type, handlers ) on a connection: each handler goes into the
\* connection's own registry, which is created from the inherited one
\* (Object.create) the first time the connection writes to it.
handle(registries, connection, typeId, handlers) ==
    [registries EXCEPT !.own[connection] =
        [propName \in DOMAIN @ |->
            LET more == {<< IF handleProps(h[1]) = "" THEN h[1] ELSE typeId,
                            h[2] >> :
                            h \in {e \in handlers :
                                (IF handleProps(e[1]) = "" THEN "response"
                                 ELSE handleProps(e[1])) = propName}}
            IN  IF more = {} THEN @[propName]
                ELSE Some(Assign(IF @[propName] = Null THEN {}
                                 ELSE Val(@[propName]), more))]]

InitHandle ==
    /\ Idle
    /\ willRetry
    /\ maxCallsInRequest = 1
    /\ pure = [shared |-> prototype,
               own |-> [connection \in {"mail", "calendar"} |->
                           [propName \in DOMAIN prototype |-> Null]],
               source |-> Null,
               handlers |-> {}]

\* connection.handle( Type, handlers ), every handler a function of the
\* caller's.
Handle(connection, typeId, actions) ==
    LET handlers == {<< action, connection >> : action \in actions}
    IN  /\ pure' = [handle(pure, connection, typeId, handlers) EXCEPT
                       !.source = Some(connection),
                       !.handlers = handlers]
        /\ UNCHANGED program

SpecHandle ==
    InitHandle /\
    [][\E connection \in {"mail", "calendar"},
          actions \in {{"precedence"}, {"fetch", "refresh"},
                       {"commit", "query"}, {"error_/set"}, {"Email/set"}} :
          Handle(connection, "Message", actions)]_vars

\* ------------------------------------------------------------- Sequence
MaxSteps == 3
MaxGo == 2
MaxCancel == 2

\* What the sequence did and what was done to it, in order: "go", "cancel"
\* and "next" are calls made on it (at: the index of the step that calls
\* next), "step" is queue[ at ]( next, data ) and "afterwards" is
\* this.afterwards( at, length ).
Event(e, at, fn, data, length) ==
    [e |-> e, at |-> at, fn |-> fn, data |-> data, length |-> length]

Count(trace, e) == Cardinality({i \in 1..Len(trace) : trace[i].e = e})

goAgain(this, data) ==
    IF this.index < this.length
    THEN [this EXCEPT !.trace = Append(@, Event("step", this.index,
                                    this.queue[this.index + 1], data, 0))]
    ELSE this

\* go( data )
go(this, data) ==
    IF this.index < this.length
    THEN [this EXCEPT !.index = @ + 1,
                      !.trace = Append(@, Event("step", this.index,
                                    this.queue[this.index + 1], data, 0))]
    ELSE IF this.index = this.length
    THEN [this EXCEPT !.trace = Append(@, Event("afterwards", this.index,
                                    this.afterwards, "", this.length))]
    ELSE this

\* cancel()
cancel(this) ==
    IF this.index < this.length
    THEN [this EXCEPT !.length = 0,
                      !.trace = Append(@, Event("afterwards", this.index,
                                    this.afterwards, "", this.length))]
    ELSE this

\* new Sequence()
InitSequence ==
    /\ Idle
    /\ willRetry
    /\ maxCallsInRequest = 1
    /\ pure = [queue |-> << >>, index |-> 0, length |-> 0,
               afterwards |-> "noop", trace |-> << >>]

\* then( fn )
Then(fn) ==
    /\ Len(pure.queue) < MaxSteps
    /\ pure' = [pure EXCEPT !.queue = Append(@, fn), !.length = @ + 1]
    /\ UNCHANGED program

\* lastly( fn )
Lastly(fn) ==
    /\ pure.afterwards # fn
    /\ pure' = [pure EXCEPT !.afterwards = fn]
    /\ UNCHANGED program

\* The application calls go( data ).
Go(data) ==
    /\ Count(pure.trace, "go") < MaxGo
    /\ pure' = go([pure EXCEPT !.trace =
                      Append(@, Event("go", pure.index, "", data, 0))], data)
    /\ UNCHANGED program

\* A step that was started and has not called next yet calls next( value ).
CallNext(at, value) ==
    /\ \E i \in 1..Len(pure.trace) :
          pure.trace[i].e = "step" /\ pure.trace[i].at = at
    /\ \A i \in 1..Len(pure.trace) :
          pure.trace[i].e = "next" => pure.trace[i].at # at
    /\ pure' = go([pure EXCEPT !.trace =
                      Append(@, Event("next", at, "", value, 0))], value)
    /\ UNCHANGED program

\* The application calls cancel().
Cancel ==
    /\ Count(pure.trace, "cancel") < MaxCancel
    /\ pure' = cancel([pure EXCEPT !.trace =
                          Append(@, Event("cancel", pure.index, "", "",
                                          pure.length))])
    /\ UNCHANGED program

SpecSequence ==
    InitSequence /\
    [][\/ \E fn \in {"f", "g"} : Then(fn)
       \/ Lastly("done")
       \/ Go("data")
       \/ \E at \in 0..(MaxSteps - 1), value \in {"a", "b"} :
             CallNext(at, value)
       \/ Cancel]_vars

\* ------------------------------------- patches of recurrence overrides
removeInvalidPatchesOfFirst(data, recurrenceOverrides) ==
    IF recurrenceOverrides = Null THEN Null
    ELSE Some([recurrenceId \in DOMAIN Val(recurrenceOverrides) |->
                  IF \E other \in DOMAIN Val(recurrenceOverrides) :
                         other < recurrenceId
                  THEN Val(recurrenceOverrides)[recurrenceId]
                  ELSE {e \in Val(recurrenceOverrides)[recurrenceId] :
                           isValidPatch(data, e[1])}])

\* _removeInvalidPatches: the recurrence overrides afterwards, each override
\* a set of << path, value >> pairs.
removeInvalidPatches(data, recurrenceOverrides) ==
    IF recurrenceOverrides = Null THEN Null
    ELSE Some([recurrenceId \in DOMAIN Val(recurrenceOverrides) |->
                  {e \in Val(recurrenceOverrides)[recurrenceId] :
                      isValidPatch(data, e[1])}])

\* The patches an override is made of here; the second location has the
\* id "L/2".
PatchPaths ==
    {<< "title" >>,
     << "locations", "/", "L1" >>,
     << "locations", "/", "L1", "/", "name" >>,
     << "locations", "/", "L", "~", "1", "2", "/", "name" >>,
     << "links", "/", "K", "/", "href" >>,
     << "participants", "/", "P", "/", "participationStatus" >>,
     << "alerts", "/", "A", "/", "action" >>}

\* The values an attribute is set to.
AttrValues(attr) ==
    LET item == JSON("object", "", {<< << "name" >>, String("x") >>})
    IN  {JNull, JSON("object", "", {})} \cup
        (CASE attr = << "locations" >> ->
                  {JSON("object", "", {<< << "L1" >>, item >>}),
                   JSON("object", "", {<< << "L", "/", "2" >>, item >>}),
                   JSON("object", "", {<< << "L1" >>, item >>,
                                       << << "L", "/", "2" >>, item >>})}
           [] attr = << "links" >> ->
                  {JSON("object", "", {<< << "K" >>, item >>})}
           [] attr = << "participants" >> ->
                  {JSON("object", "", {<< << "P" >>, item >>})}
           [] OTHER -> {JSON("object", "", {<< << "A" >>, item >>})})

Overrides ==
    {Null} \cup
    {Some([recurrenceId \in {1, 2} |->
              {<< path, String("v") >> : path \in paths[recurrenceId]}]) :
        paths \in {f \in [{1, 2} -> SUBSET PatchPaths] :
                      \A recurrenceId \in {1, 2} :
                          Cardinality(f[recurrenceId]) <= recurrenceId}}

\* An event with a location, a link, a participant and an alert.
InitOverrides ==
    /\ Idle
    /\ willRetry
    /\ maxCallsInRequest = 1
    /\ \E recurrenceOverrides \in Overrides :
          pure = [data |-> JSON("object", "",
                      {<< << "title" >>, String("x") >>,
                       << << "locations" >>,
                          JSON("object", "", {<< << "L1" >>,
                              JSON("object", "", {}) >>}) >>,
                       << << "links" >>,
                          JSON("object", "", {<< << "K" >>,
                              JSON("object", "", {}) >>}) >>,
                       << << "participants" >>,
                          JSON("object", "", {<< << "P" >>,
                              JSON("object", "", {}) >>}) >>,
                       << << "alerts" >>,
                          JSON("object", "", {<< << "A" >>,
                              JSON("object", "", {}) >>}) >>}),
                  recurrenceOverrides |-> recurrenceOverrides,
                  before |-> "idle"]

\* event.set( attr, value ) for locations, links, participants and alerts:
\* willSet queues _removeInvalidPatches for the 'before' phase.
SetAttr(attr, value) ==
    /\ pure' = [pure EXCEPT !.data = Set(@, attr, value),
                            !.before = "queued"]
    /\ UNCHANGED program

\* The 'before' phase of the run loop.
Before ==
    /\ pure.before = "queued"
    /\ pure' = [pure EXCEPT
                  !.recurrenceOverrides = removeInvalidPatches(pure.data, @),
                  !.before = "run"]
    /\ UNCHANGED program

SpecOverrides ==
    InitOverrides /\
    [][\/ \E attr \in {<< "locations" >>, << "links" >>,
                       << "participants" >>, << "alerts" >>} :
             \E value \in AttrValues(attr) : SetAttr(attr, value)
       \/ Before]_vars

\* ---------------------------------------------- start and override ids
MaxSets == 3
MaxStart == 6

\* A Date is a count of half seconds; the JSON form of a date has whole
\* seconds only, and stands here as their count.
\* Date.fromJSON( id )
fromJSON(id) == id * 2

\* date.toJSON()
toJSON(date) == date \div 2

updateRecurrenceOverridesKept(recurrenceOverrides, oldStart, newStart) ==
    recurrenceOverrides

\* _updateRecurrenceOverrides( oldStart, newStart ): the overrides
\* afterwards, a function from recurrence id to payload.  An id written
\* twice keeps the payload written last; the loop visits the ids in the
\* order of the object's keys, taken here as ascending.
updateRecurrenceOverrides(recurrenceOverrides, oldStart, newStart) ==
    IF recurrenceOverrides = Null THEN Null
    ELSE LET delta == newStart - oldStart
             old == Val(recurrenceOverrides)
             shifted(date) == toJSON(fromJSON(date) + delta)
         IN  Some([id \in {shifted(date) : date \in DOMAIN old} |->
                      old[CHOOSE date \in DOMAIN old :
                              /\ shifted(date) = id
                              /\ \A other \in DOMAIN old :
                                    shifted(other) = id => other <= date]])

StartOverrides ==
    {Null} \cup
    UNION {{Some(f) : f \in [ids -> {"excluded", "moved"}]} :
              ids \in SUBSET {0, 1, 3}}

\* An event, new (no start yet) or loaded.
InitStart ==
    /\ Idle
    /\ willRetry
    /\ maxCallsInRequest = 1
    /\ \E start \in {Null, Some(0), Some(4)},
          recurrenceOverrides \in StartOverrides :
          pure = [start |-> start,
                  recurrenceOverrides |-> recurrenceOverrides,
                  sets |-> 0]

\* event.set( 'start', propValue ): willSet, then the new value.
SetStart(propValue) ==
    /\ pure.sets < MaxSets
    /\ pure' = [start |-> Some(propValue),
                recurrenceOverrides |->
                    IF pure.start # Null
                    THEN updateRecurrenceOverrides(pure.recurrenceOverrides,
                             Val(pure.start), propValue)
                    ELSE pure.recurrenceOverrides,
                sets |-> pure.sets + 1]
    /\ UNCHANGED program

SpecStart ==
    InitStart /\ [][\E propValue \in 0..MaxStart : SetStart(propValue)]_vars

\* ---------------------------------------------------------- occurrences
\* The date of an hour of a day, days counted from 2024-06-01T00:00:00.
At(day, hour) == fromJSON((day * 24 + hour) * 3600)

\* The time between two dates of a rule, for the frequencies with a fixed
\* one.
Period(frequency) ==
    IF frequency = "weekly" THEN At(7, 0) ELSE At(1, 0)

\* recurrenceRule.getOccurrences( start, begin, end ): the dates of the
\* rule from begin on and before end (null: no limit), as a set; count = 0
\* and until = Null stand for a rule without them.
getOccurrences(recurrenceRule, start, begin, end) ==
    LET period == Period(recurrenceRule.frequency)
        last == IF recurrenceRule.count > 0
                THEN recurrenceRule.count - 1
                ELSE IF recurrenceRule.until # Null
                THEN (Val(recurrenceRule.until) - start) \div period
                ELSE (Val(end) - start) \div period
    IN  {date \in {start + k * period : k \in 0..last} :
            /\ recurrenceRule.until # Null => date <= Val(recurrenceRule.until)
            /\ begin # Null => date >= Val(begin)
            /\ end # Null => date < Val(end)}

\* dates.sort( numerically ), of a set of dates
RECURSIVE sort(_)
sort(dates) ==
    IF dates = {} THEN << >>
    ELSE LET first == CHOOSE date \in dates : \A other \in dates : date <= other
         IN  << first >> \o sort(dates \ {first})

\* recurrenceOverrides[ id ][ key ], as a condition
Has(recurrenceOverrides, id, key) ==
    Truthy(Get(recurrenceOverrides[id], << key >>))

allStartDatesOfRule(event) ==
    LET recurrenceRule == event.recurrenceRule
    IN  IF recurrenceRule # Null /\ Val(recurrenceRule).until = Null /\
           Val(recurrenceRule).count = 0
        THEN << event.start >>
        ELSE IF recurrenceRule # Null
        THEN sort(getOccurrences(Val(recurrenceRule), event.start, Null, Null))
        ELSE << event.start >>

\* allStartDates
allStartDates(event) ==
    LET recurrenceRule == event.recurrenceRule
        recurrenceOverrides == event.recurrenceOverrides
        start == event.start
    IN  IF recurrenceRule # Null /\ Val(recurrenceRule).until = Null /\
           Val(recurrenceRule).count = 0
        THEN << start >>
        ELSE LET dates == IF recurrenceRule # Null
                          THEN getOccurrences(Val(recurrenceRule), start,
                                              Null, Null)
                          ELSE {start}
             IN  IF recurrenceOverrides # Null
                 THEN LET overrides == Val(recurrenceOverrides)
                          occurrencesSet ==
                              ({toJSON(date) : date \in dates} \
                               {id \in DOMAIN overrides :
                                   Has(overrides, id, "excluded")}) \cup
                              {id \in DOMAIN overrides :
                                  ~Has(overrides, id, "excluded")}
                      IN  sort({fromJSON(id) : id \in occurrencesSet})
                 ELSE sort(dates)

getOccurrencesOfRule(event, start, end) ==
    Some([i \in DOMAIN allStartDatesOfRule(event) |->
             toJSON(allStartDatesOfRule(event)[i])])

earliestStartOfRange(event, start) == start

\* The earliest start an occurrence that reaches into the range can have:
\* start - duration + 1000, with the duration limited by the frequency of
\* the rule.
earliestStartOf(event, start) ==
    LET recurrenceRule == event.recurrenceRule
        day == 24 * 60 * 60 * 1000
        limit == IF recurrenceRule = Null THEN event.duration
                 ELSE IF Val(recurrenceRule).frequency = "yearly"
                 THEN 366 * day
                 ELSE IF Val(recurrenceRule).frequency = "monthly"
                 THEN 31 * day
                 ELSE IF Val(recurrenceRule).frequency = "weekly"
                 THEN 7 * day
                 ELSE day
        duration == IF event.duration < limit THEN event.duration ELSE limit
    \* a Date counts half seconds, a duration milliseconds
    IN  start - (duration - 1000) \div 500

\* getOccurrencesThatMayBeInDateRange( start, end ) without a time zone:
\* the recurrence ids of the occurrences returned, in order; null for none.
getOccurrencesThatMayBeInDateRange(event, start, end) ==
    LET recurrenceRule == event.recurrenceRule
        recurrenceOverrides == event.recurrenceOverrides
        earliestStart == earliestStartOf(event, start)
        ids == IF recurrenceRule # Null /\ Val(recurrenceRule).count > 0
               THEN [i \in DOMAIN allStartDates(event) |->
                        toJSON(allStartDates(event)[i])]
               ELSE LET occurrences ==
                            IF recurrenceRule # Null
                            THEN getOccurrences(Val(recurrenceRule),
                                     event.start, Some(earliestStart),
                                     Some(end))
                            ELSE {event.start}
                    IN  IF recurrenceOverrides # Null
                        THEN LET overrides == Val(recurrenceOverrides)
                                 kept == {toJSON(date) : date \in occurrences}
                                         \ {id \in DOMAIN overrides :
                                             Has(overrides, id, "excluded")}
                                 added ==
                                     {id \in DOMAIN overrides :
                                        /\ ~Has(overrides, id, "excluded")
                                        /\ \/ /\ earliestStart <= fromJSON(id)
                                              /\ fromJSON(id) < end
                                           \/ Has(overrides, id, "start")
                                           \/ Has(overrides, id, "duration")
                                           \/ Has(overrides, id, "timeZone")}
                             IN  sort(kept) \o sort(added \ kept)
                        ELSE sort({toJSON(date) : date \in occurrences})
    IN  IF Len(ids) > 0 THEN Some(ids) ELSE Null

\* The rules, overrides and events drawn.
Rules ==
    {Null,
     Some([frequency |-> "weekly", count |-> 0, until |-> Null]),
     Some([frequency |-> "weekly", count |-> 4, until |-> Null]),
     Some([frequency |-> "daily", count |-> 0, until |-> Some(At(2, 10))])}

Payloads ==
    {JSON("object", "", {<< << "excluded" >>, Boolean("true") >>}),
     JSON("object", "", {<< << "excluded" >>, Boolean("false") >>}),
     JSON("object", "", {<< << "start" >>, String("2024-06-22T11:00:00") >>}),
     JSON("object", "", {<< << "title" >>, String("v") >>})}

OccurrenceOverrides ==
    {Null} \cup
    UNION {{Some(f) : f \in [ids -> Payloads]} :
              ids \in SUBSET {toJSON(At(0, 10)), toJSON(At(7, 10)),
                              toJSON(At(21, 11))}}

\* The durations drawn, in milliseconds: none, two hours, eight days.
Durations == {0, 7200000, 691200000}

\* The ranges asked for: June, the day of 06-08, the rest of 06-01 from
\* 11:00, the same from half a second before 12:00, and the rest of 06-08
\* from 11:00.
DateRanges ==
    {<< At(0, 0), At(30, 0) >>, << At(7, 0), At(8, 0) >>,
     << At(0, 11), At(1, 0) >>, << At(0, 12) - 1, At(1, 0) >>,
     << At(7, 11), At(8, 0) >>}

InitOccurrences ==
    /\ Idle
    /\ willRetry
    /\ maxCallsInRequest = 1
    /\ \E recurrenceRule \in Rules,
          recurrenceOverrides \in OccurrenceOverrides,
          duration \in Durations :
          pure = [event |-> [start |-> At(0, 10),
                             duration |-> duration,
                             recurrenceRule |-> recurrenceRule,
                             recurrenceOverrides |-> recurrenceOverrides],
                  ocache |-> {},
                  called |-> "",
                  range |-> << 0, 0 >>,
                  result |-> Null]

\* event.get( 'allStartDates' )
AllStartDates ==
    /\ pure' = [pure EXCEPT !.called = "allStartDates",
                            !.result = Some(allStartDates(pure.event))]
    /\ UNCHANGED program

\* event.getOccurrencesThatMayBeInDateRange( start, end ); every
\* occurrence returned is made, or taken from the cache of the event.
GetOccurrences(start, end) ==
    LET result == getOccurrencesThatMayBeInDateRange(pure.event, start, end)
    IN  /\ pure' = [pure EXCEPT
                      !.called = "getOccurrencesThatMayBeInDateRange",
                      !.range = << start, end >>,
                      !.result = result,
                      !.ocache = IF result = Null THEN @
                                 ELSE @ \cup {Val(result)[i] :
                                                 i \in DOMAIN Val(result)}]
        /\ UNCHANGED program

SpecOccurrences ==
    InitOccurrences /\
    [][\/ AllStartDates
       \/ \E range \in DateRanges : GetOccurrences(range[1], range[2])]_vars

\* ------------------------------------------------- occurrence handles
MaxHandles == 3

\* The keys the observer _clearOccurrencesCache is registered for.
observes == {"start", "timeZone", "recurrence"}

\* getOccurrenceForRecurrenceId( id ): the cache afterwards, a set of
\* << id, handle >> pairs; a handle is the number of the
\* CalendarEventOccurrence made.
getOccurrenceForRecurrenceId(ocache, id, made) ==
    LET cache == IF ocache = Null THEN {} ELSE Val(ocache)
    IN  IF \E e \in cache : e[1] = id THEN Some(cache)
        ELSE Some(cache \cup {<< id, made + 1 >>})

\* A new event.
InitHandles ==
    /\ Idle
    /\ willRetry
    /\ maxCallsInRequest = 1
    /\ pure = [ocache |-> Null,
               made |-> 0,
               unloaded |-> {},
               attributes |-> [key \in {"start", "timeZone", "recurrenceRule",
                                        "recurrenceOverrides", "title"} |-> 0],
               id |-> "",
               returned |-> 0,
               changed |-> ""]

\* event.getOccurrenceForRecurrenceId( id )
GetOccurrenceForRecurrenceId(id) ==
    LET ocache == getOccurrenceForRecurrenceId(pure.ocache, id, pure.made)
        occurrence == (CHOOSE e \in Val(ocache) : e[1] = id)[2]
    IN  /\ occurrence <= MaxHandles
        /\ pure' = [pure EXCEPT !.ocache = ocache,
                                !.made = IF occurrence > @ THEN occurrence ELSE @,
                                !.id = id,
                                !.returned = occurrence,
                                !.changed = ""]
        /\ UNCHANGED program

\* event.set( key, value ) with a new value: the observers of the key run;
\* _clearOccurrencesCache unloads every handle of the cache and drops it.
SetAttribute(key) ==
    /\ pure' = [pure EXCEPT
                  !.attributes[key] = 1 - @,
                  !.ocache = IF key \in observes THEN Null ELSE @,
                  !.unloaded = IF key \in observes /\ pure.ocache # Null
                               THEN @ \cup {e[2] : e \in Val(pure.ocache)}
                               ELSE @,
                  !.id = "",
                  !.returned = 0,
                  !.changed = key]
    /\ UNCHANGED program

SpecHandles ==
    InitHandles /\
    [][\/ \E id \in {"2024-06-01T10:00:00", "2024-06-08T10:00:00"} :
             GetOccurrenceForRecurrenceId(id)
       \/ \E key \in {"start", "timeZone", "recurrenceRule",
                      "recurrenceOverrides", "title"} :
             SetAttribute(key)]_vars

\* --------------------------------------------- a patch walked into a value
\* The values found at the key "a" of the object patched: none, null,
\* primitives that are falsy and that are not, and objects with the key "b"
\* holding such values in turn.
Inner ==
    {JNull, String("s"), String(""), Number("5"), Number("0"),
     Boolean("false"), JSON("object", "", {})}

Patched ==
    {JSON("object", "", {})} \cup
    {Object(<< "a" >>, value) : value \in Inner} \cup
    {Object(<< "a" >>, Object(<< "b" >>, value)) : value \in Inner} \cup
    {JSON("object", "", {<< << "a" >>, Object(<< "b" >>, Number("1")) >>,
                         << << "k" >>, Number("2") >>})}

WalkPaths ==
    {<< "a" >>, << "k" >>,
     << "a", "/", "b" >>, << "a", "/", "0" >>, << "a", "/", "b", "/", "c" >>,
     << "x", "/", "y" >>, << "/", "a" >>}

InitWalk ==
    /\ Idle
    /\ willRetry
    /\ maxCallsInRequest = 1
    /\ \E object \in Patched, path \in WalkPaths,
          patch \in {JNull, Number("7"), JSON("object", "", {})} :
          pure = [object |-> object, path |-> path, patch |-> patch,
                  called |-> {}, patched |-> object, valid |-> FALSE]

\* applyPatch( object, path, patch )
ApplyPatch ==
    /\ "applyPatch" \notin pure.called
    /\ pure' = [pure EXCEPT
                  !.called = @ \cup {"applyPatch"},
                  !.patched = applyPatch(pure.object, pure.path, pure.patch)]
    /\ UNCHANGED program

\* isValidPatch( object, path )
IsValidPatch ==
    /\ "isValidPatch" \notin pure.called
    /\ pure' = [pure EXCEPT
                  !.called = @ \cup {"isValidPatch"},
                  !.valid = isValidPatch(pure.object, pure.path)]
    /\ UNCHANGED program

SpecWalk == InitWalk /\ [][ApplyPatch \/ IsValidPatch]_vars

\* ------------------------------------------------ commit precedence
CommitTypes == {"Mailbox", "Message", "CalendarEvent"}

\* The numbers a type may have in commitPrecedence; Null: the type has none.
Precedences == {Null, Some(-1), Some(0), Some(1), Some(3)}

\* precedence[ typeId ] || -1
precedenceOf(precedence, typeId) ==
    IF precedence[typeId] = Null \/ precedence[typeId] = Some(0) THEN -1
    ELSE Val(precedence[typeId])

\* The orders ids.sort( ... ) may leave the ids of changes in: every order
\* the comparison function agrees with, types of higher precedence first.
\* Without a commitPrecedence the ids stay as Object.keys gave them.
sortedIds(changes, commitPrecedence) ==
    IF commitPrecedence = Null THEN {[id \in 1..Len(changes) |-> id]}
    ELSE {ids \in [1..Len(changes) -> 1..Len(changes)] :
            /\ \A i, j \in 1..Len(changes) : i # j => ids[i] # ids[j]
            /\ \A i, j \in 1..Len(changes) : i < j =>
                  precedenceOf(Val(commitPrecedence), changes[ids[i]].typeId) >=
                  precedenceOf(Val(commitPrecedence), changes[ids[j]].typeId)}

\* commitType: a <typeId>/set when the change creates, updates or destroys,
\* then a <typeId>/copy when records move in from another account.
commitType(queue, typeId, change) ==
    LET set == IF change.set
               THEN Append(queue, [name |-> << typeId, "/set" >>, of |-> change.id])
               ELSE queue
    IN  IF change.move
        THEN Append(set, [name |-> << typeId, "/copy" >>, of |-> change.id])
        ELSE set

\* commitChanges, after the sort: while ( l-- ) takes the ids from the last
\* to the first and lets the committer of each handled type add its calls.
RECURSIVE commitChanges(_, _, _, _, _)
commitChanges(this, changes, ids, l, recordCommitters) ==
    IF l = 0 THEN this
    ELSE LET change == changes[ids[l]]
         IN  commitChanges(
                 IF change.typeId \in recordCommitters
                 THEN [sendQueue |-> commitType(this.sendQueue, change.typeId, change),
                       handledAny |-> TRUE]
                 ELSE this,
                 changes, ids, l - 1, recordCommitters)

\* The change of one type in one account, as the store hands it over.
Changes ==
    {[typeId |-> typeId, set |-> set, move |-> move] :
        typeId \in CommitTypes, set \in BOOLEAN, move \in {FALSE}} \cup
    {[typeId |-> "Message", set |-> TRUE, move |-> TRUE]}

ChangesOf(length) ==
    {[id \in 1..length |->
        [typeId |-> changes[id].typeId, set |-> changes[id].set,
         move |-> changes[id].move, id |-> id]] :
        changes \in [1..length -> Changes]}

CommitPrecedences ==
    {Null} \cup {Some(precedence) : precedence \in [CommitTypes -> Precedences]}

InitPrecedence ==
    /\ Idle
    /\ willRetry
    /\ maxCallsInRequest = 1
    /\ \E changes \in ChangesOf(2) \cup ChangesOf(3),
          commitPrecedence \in CommitPrecedences,
          recordCommitters \in {CommitTypes, {"Mailbox", "Message"}} :
          pure = [changes |-> changes,
                  commitPrecedence |-> commitPrecedence,
                  recordCommitters |-> recordCommitters,
                  sendQueue |-> << >>,
                  callbackQueue |-> 0,
                  handledAny |-> FALSE,
                  committed |-> FALSE]

CommitChanges(callback) ==
    /\ ~pure.committed
    /\ \E ids \in sortedIds(pure.changes, pure.commitPrecedence) :
          LET done == commitChanges([sendQueue |-> pure.sendQueue,
                                     handledAny |-> FALSE],
                                    pure.changes, ids, Len(ids),
                                    pure.recordCommitters)
          IN  pure' = [pure EXCEPT
                          !.sendQueue = done.sendQueue,
                          !.handledAny = done.handledAny,
                          !.callbackQueue =
                              IF done.handledAny /\ callback THEN @ + 1 ELSE @,
                          !.committed = TRUE]
    /\ UNCHANGED program

SpecPrecedence ==
    InitPrecedence /\ [][\E callback \in BOOLEAN : CommitChanges(callback)]_vars

\* ------------------------------------------- Email/copy, alreadyExists
\* The creation keys of the copy, in the order Object.keys gives them.
CopyKeys == << "k1", "k2" >>

CopyKeySet == {CopyKeys[i] : i \in DOMAIN CopyKeys}

\* Object.zip( keys, values ): a later value replaces an earlier one of the
\* same key
zip(keys, values) ==
    [key \in {keys[i] : i \in DOMAIN keys} |->
        values[CHOOSE i \in DOMAIN keys :
                  keys[i] = key /\ \A j \in DOMAIN keys : keys[j] = key => j <= i]]

\* response[ 'Email/copy' ]: the send queue and the calls on the store
\* afterwards
emailCopy(queue, args, reqArgs) ==
    LET notCreated == args.notCreated
        alreadyExists ==
            IF notCreated # Null
            THEN Some(SelectSeq(CopyKeys, LAMBDA storeKey :
                     /\ storeKey \in DOMAIN Val(notCreated)
                     /\ Val(notCreated)[storeKey].type = "alreadyExists"))
            ELSE Null
        create == reqArgs.create
        update ==
            callMethod(queue, "Email/set",
                [accountId |-> reqArgs.accountId,
                 update |->
                    Some(zip([i \in DOMAIN Val(alreadyExists) |->
                                 Val(notCreated)[Val(alreadyExists)[i]].existingId],
                             [i \in DOMAIN Val(alreadyExists) |->
                                 {<< "mailboxIds/", id >> :
                                     id \in create[Val(alreadyExists)[i]].mailboxIds}])),
                 destroy |-> Null])
        destroy ==
            callMethod(update, "Email/set",
                [accountId |-> reqArgs.fromAccountId,
                 update |-> Null,
                 destroy |->
                    Some([i \in DOMAIN Val(alreadyExists) |->
                             create[Val(alreadyExists)[i]].id])])
    IN  [sendQueue |->
            IF alreadyExists # Null /\ Len(Val(alreadyExists)) > 0
            THEN (IF reqArgs.onSuccessDestroyOriginal THEN destroy ELSE update)
            ELSE queue,
         store |->
            didCopy([accountId |-> args.accountId,
                     fromAccountId |-> args.fromAccountId,
                     error |-> Null,
                     created |-> args.created,
                     notCreated |-> IF notCreated = Null THEN Null
                                    ELSE Some(DOMAIN Val(notCreated)),
                     updated |-> Null, notUpdated |-> Null,
                     destroyed |-> Null, notDestroyed |-> Null],
                    reqArgs)]

\* What the server may report of a key it did not create.
SetErrors ==
    [type : {"alreadyExists", "notFound"}, existingId : {"e1", "e2"}]

NotCreated ==
    {Null} \cup
    UNION {{Some(f) : f \in [keys -> SetErrors]} :
              keys \in SUBSET CopyKeySet}

\* An Email/copy of two messages is in flight, and its response is ready.
InitCopy ==
    /\ Idle
    /\ willRetry
    /\ maxCallsInRequest = 1
    /\ \E notCreated \in NotCreated,
          mailboxIds \in [CopyKeySet -> {{"m1"}, {"m2"}, {"m1", "m2"}}],
          onSuccessDestroyOriginal \in BOOLEAN,
          queued \in BOOLEAN :
          LET reqArgs ==
                  [fromAccountId |-> "B", accountId |-> "A",
                   create |-> [storeKey \in CopyKeySet |->
                                  [id |-> << "id of", storeKey >>,
                                   mailboxIds |-> mailboxIds[storeKey]]],
                   onSuccessDestroyOriginal |-> onSuccessDestroyOriginal]
          IN  pure = [inFlightRemoteCalls |->
                          << MethodCall("Email/copy", reqArgs, "0") >>,
                      sendQueue |->
                          IF queued
                          THEN callMethod(<< >>, "Mailbox/get",
                                          [accountId |-> "A"])
                          ELSE << >>,
                      args |->
                          [accountId |-> "A", fromAccountId |-> "B",
                           created |->
                               Some(CopyKeySet \
                                    (IF notCreated = Null THEN {}
                                     ELSE DOMAIN Val(notCreated))),
                           notCreated |-> notCreated],
                      store |-> << >>,
                      handled |-> FALSE]

\* The response of the Email/copy in flight is dispatched to its handler.
EmailCopy ==
    /\ ~pure.handled
    /\ LET done == emailCopy(pure.sendQueue, pure.args,
                             pure.inFlightRemoteCalls[1].args)
       IN  pure' = [pure EXCEPT !.sendQueue = done.sendQueue,
                                !.store = done.store,
                                !.handled = TRUE]
    /\ UNCHANGED program

SpecCopy == InitCopy /\ [][EmailCopy]_vars

\* ------------------------------------------- handlers that throw
RECURSIVE tryHandlersUntilError(_, _, _, _)
tryHandlersUntilError(data, remoteCalls, throwing, i) ==
    IF i > Len(data) THEN << >>
    ELSE LET response == data[i]
             request == RequestFor(response, remoteCalls)
         IN  IF response.name \in ResponseHandlers
             THEN << [response |-> i,
                      called |-> request # Null,
                      error |-> request = Null \/ i \in throwing] >> \o
                  (IF request = Null \/ i \in throwing THEN << >>
                   ELSE tryHandlersUntilError(data, remoteCalls, throwing,
                                              i + 1))
             ELSE tryHandlersUntilError(data, remoteCalls, throwing, i + 1)

\* handleResponses with handlers that may throw: for each response that has
\* a handler, whether the handler was called and whether an error was
\* caught and handed to RunLoop.didError. request[0] is evaluated inside the
\* try block, so a tag that selects no request is caught as well, before
\* the handler is called.
RECURSIVE tryHandlers(_, _, _, _)
tryHandlers(data, remoteCalls, throwing, i) ==
    IF i > Len(data) THEN << >>
    ELSE LET response == data[i]
             request == RequestFor(response, remoteCalls)
         IN  (IF response.name \in ResponseHandlers
              THEN << [response |-> i,
                       called |-> request # Null,
                       error |-> request = Null \/ i \in throwing] >>
              ELSE << >>)
             \o tryHandlers(data, remoteCalls, throwing, i + 1)

\* The responses a server may send for a batch of two calls: with and
\* without a handler, with the tag of a call, of no call, and no number.
DispatchResponses ==
    {MethodResponse(name, "ok", 0, tag) :
        name \in {"Email/get", "Thread/get"}, tag \in {"0", "1", "7", "x"}}

DispatchData ==
    UNION {[1..n -> DispatchResponses] : n \in 1..3}

\* A batch of two calls and two callbacks is in flight, in one page or as
\* the first or the last of two pages.
InitDispatch ==
    /\ Idle
    /\ willRetry
    /\ maxCallsInRequest = 1
    /\ \E data \in DispatchData, throwing \in SUBSET (1..3),
          context \in {Null, Some([doneCount |-> 0, sentCount |-> 1]),
                       Some([doneCount |-> 1, sentCount |-> 1])} :
          /\ throwing \subseteq DOMAIN data
          /\ pure = [inFlightRemoteCalls |->
                         Some(callMethod(callMethod(<< >>, "Email/get",
                                                    Args(1, NoRef)),
                                         "Email/set", Args(2, NoRef))),
                     inFlightCallbacks |->
                         Some(<< Callback("0", Fn(1, 1)),
                                 Callback("", Fn(2, 0)) >>),
                     inFlightContext |-> context,
                     data |-> data,
                     throwing |-> throwing,
                     handled |-> << >>,
                     middleQueue |-> << >>,
                     stage |-> "response"]

\* ioDidSucceed with method responses none of which is serverUnavailable
HandleBatch ==
    /\ pure.stage = "response"
    /\ LET remoteCalls == Val(pure.inFlightRemoteCalls)
           handled == tryHandlers(pure.data, remoteCalls, pure.throwing, 1)
       IN  pure' =
             IF MorePages(pure.inFlightContext, remoteCalls)
             THEN [pure EXCEPT
                     !.stage = "paging",
                     !.handled = handled,
                     !.inFlightContext =
                         Some([Val(@) EXCEPT
                                  !.doneCount = @ + Val(pure.inFlightContext).sentCount])]
             ELSE [pure EXCEPT
                     !.stage = "done",
                     !.handled = handled,
                     !.middleQueue =
                         processCallbacks(Val(pure.inFlightCallbacks),
                                          pure.data, remoteCalls),
                     !.inFlightContext = Null,
                     !.inFlightRemoteCalls = Null,
                     !.inFlightCallbacks = Null]
    /\ UNCHANGED program

SpecDispatch == InitDispatch /\ [][HandleBatch]_vars

\* --------------------------------------------------------------- properties

Range(s) == {s[i] : i \in 1..Len(s)}

\* The method calls of the HTTP request in flight.
InFlightPage == Val(inFlightRequest).methodCalls

\* The callback tuples of the batch under observation.
BatchCallbacks == Val(batch).callbacks

BatchCalls == Val(batch).calls

\* Every callback run or waiting on the run loop.
Queued == callbackLog \o middleQueue

RECURSIVE AllResponses(_)
AllResponses(log) ==
    IF log = << >> THEN << >> ELSE Head(log).responses \o AllResponses(Tail(log))

RECURSIVE AllHandlerCalls(_)
AllHandlerCalls(log) ==
    IF log = << >> THEN << >> ELSE Head(log).calls \o AllHandlerCalls(Tail(log))

\* -- C1

C1_Separate ==
    /\ outstanding <= 1
    /\ \A i \in 1..Len(sendQueue) :
          /\ inFlightRemoteCalls # Null =>
                sendQueue[i] \notin Range(Val(inFlightRemoteCalls))
          /\ inFlightRequest # Null => sendQueue[i] \notin Range(InFlightPage)
    /\ inFlightRequest # Null /\ inFlightRemoteCalls # Null =>
          Range(InFlightPage) \subseteq Range(Val(inFlightRemoteCalls))

C1_Frozen ==
    /\ inFlightRemoteCalls # Null /\ inFlightRemoteCalls' # Null =>
          /\ inFlightRemoteCalls' = inFlightRemoteCalls
          /\ inFlightCallbacks' = inFlightCallbacks
    /\ sendQueue # << >> /\ sendQueue' = << >> =>
          inFlightRemoteCalls = Null /\ inFlightRequest = Null

\* C1: at most one HTTP request is outstanding at any time. While a batch is
\* in flight its calls and callbacks do not change; what is appended meanwhile
\* waits in the fresh queues, is in no request, and is taken up only once no
\* batch is in flight.
C1_OneRequestInFlight == [] C1_Separate /\ [][C1_Frozen]_vars

\* A later page of a batch is in flight while calls and callbacks wait.
C1_Witness ==
    /\ outstanding = 1 /\ ~answered
    /\ inFlightRemoteCalls # Null
    /\ inFlightContext # Null /\ Val(inFlightContext).doneCount > 0
    /\ sendQueue # << >> /\ callbackQueue # << >>

\* -- C2

\* Every result reference of the batch is to the call just before.
RefsToPrevious(calls) ==
    \A i \in 1..Len(calls) :
        hasResultReference(calls[i]) =>
            i > 1 /\ calls[i].args.ref = calls[i - 1].tag

\* C2: with maxCallsInRequest >= 2 and a batch whose result references are
\* all to the call just before, every call of an HTTP request that carries a
\* result reference has its target earlier in the same request.
C2_ReferenceWithTarget ==
    ( /\ inFlightRequest # Null /\ inFlightRemoteCalls # Null
      /\ maxCallsInRequest >= 2
      /\ RefsToPrevious(Val(inFlightRemoteCalls)) )
    => \A i \in 1..Len(InFlightPage) :
          hasResultReference(InFlightPage[i]) =>
              \E j \in 1..(i - 1) : InFlightPage[j].tag = InFlightPage[i].args.ref

\* -- C3

\* Every result reference is to one of the two calls before.
SkipsAtMostOne(calls) ==
    \A i \in 1..Len(calls) :
        hasResultReference(calls[i]) =>
            \E j \in {i - 1, i - 2} : j >= 1 /\ calls[j].tag = calls[i].args.ref

\* The server answered every page as it should.
ServedFaithfully ==
    \A k \in 1..Len(pageLog) : pageLog[k].responses = Faithful(pageLog[k].sent)

\* The handler calls one HTTP request with the whole batch leads to.
SingleRequestCalls(remoteCalls) ==
    handleResponses(Faithful(remoteCalls), remoteCalls)

\* C3: when no result reference skips more than one call and the server
\* answers as it should, the handler calls of a completed batch, page after
\* page, are those of the same batch sent in one HTTP request (stated for
\* maxCallsInRequest >= 2, where a reference and its target fit in a page).
C3_PagedAsSingle ==
    ( /\ outcome = "completed" /\ batch # Null
      /\ maxCallsInRequest >= 2
      /\ SkipsAtMostOne(BatchCalls)
      /\ ServedFaithfully )
    => AllHandlerCalls(pageLog) = SingleRequestCalls(BatchCalls)

\* -- C4

\* No page of the batch is left: the last request reached the end of the
\* batch (or held nothing, when its page started past the end).
AllPagesDone ==
    /\ pageLog # << >>
    /\ LET last == pageLog[Len(pageLog)].sent
       IN  last = << >> \/ last[Len(last)] = BatchCalls[Len(BatchCalls)]

C4_Order ==
    batch # Null =>
        /\ outcome \in {"inflight", "kept", "resent"} =>
              \A k \in 1..Len(BatchCallbacks) :
                  scheduled[BatchCallbacks[k].fn.id] = 0
        /\ outcome = "completed" =>
              /\ AllPagesDone
              /\ [k \in 1..Len(Queued) |-> Queued[k].fn]
                     = [k \in 1..Len(BatchCallbacks) |-> BatchCallbacks[k].fn]

C4_Late ==
    scheduled' # scheduled =>
        /\ outcome' \in {"completed", "discarded"}
        /\ outcome' = "completed" => Len(pageLog') = Len(pageLog) + 1

\* C4: the callbacks of a batch are queued on the run loop only by the step
\* that handles its last page, after the handlers of that page, and run in
\* the order they were appended.
C4_CallbacksAfterHandlers == [] C4_Order /\ [][C4_Late]_vars

\* A batch of several pages has completed and its two callbacks have run.
C4_Witness ==
    /\ outcome = "completed" /\ batch # Null
    /\ Len(pageLog) >= 2
    /\ Len(BatchCallbacks) = 2
    /\ Len(callbackLog) = 2 /\ middleQueue = << >>

\* -- C5

Pending(id) ==
    \/ \E k \in 1..Len(callbackQueue) : callbackQueue[k].fn.id = id
    \/ /\ inFlightCallbacks # Null
       /\ \E k \in 1..Len(Val(inFlightCallbacks)) :
             Val(inFlightCallbacks)[k].fn.id = id

\* C5: no callback is orphaned: every callback registered waits in the
\* callback queue or with the batch in flight, or has been queued on the run
\* loop exactly once.
C5_NoCallbackOrphaned ==
    \A id \in 1..registered :
        \/ Pending(id) /\ scheduled[id] = 0
        \/ ~Pending(id) /\ scheduled[id] = 1

\* -- C6

Permuted(s, f) == [i \in 1..Len(s) |-> s[f[i]]]

\* C6: a response is routed to the handler of its name together with the
\* name and arguments of the call of the batch that has its tag, and the
\* handler calls of a page do not depend on the order of its responses.
C6_RoutedByTag ==
    batch # Null =>
        \A k \in 1..Len(pageLog) :
            LET responses == pageLog[k].responses
                calls == pageLog[k].calls
            IN  /\ \A i \in 1..Len(responses), j \in 1..Len(BatchCalls) :
                      ( /\ responses[i].name \in ResponseHandlers
                        /\ BatchCalls[j].tag = responses[i].tag )
                      => HandlerCall(responses[i], BatchCalls[j]) \in Range(calls)
                /\ \A h \in Range(calls) :
                      \E i \in 1..Len(responses), j \in 1..Len(BatchCalls) :
                          /\ BatchCalls[j].tag = responses[i].tag
                          /\ h = HandlerCall(responses[i], BatchCalls[j])
                /\ \A f \in Permutations(1..Len(responses)) :
                      Range(handleResponses(Permuted(responses, f), BatchCalls))
                          = Range(calls)

\* The responses of a page came in reverse order and both were handled, and
\* a response of a later page was handled too.
C6_Witness ==
    /\ batch # Null /\ Len(pageLog) >= 2
    /\ Len(pageLog[1].sent) = 2
    /\ pageLog[1].responses = Reverse(Faithful(pageLog[1].sent))
    /\ Len(pageLog[1].calls) = 2
    /\ Len(pageLog[2].calls) >= 1

\* -- C7

TagOf(fn) ==
    LET k == CHOOSE k \in 1..Len(BatchCallbacks) : BatchCallbacks[k].fn = fn
    IN  BatchCallbacks[k].tag

\* C7: when a batch completes, a callback passed with a call is given the
\* response that has the tag of its call, whichever page it came in, and the
\* empty error sentinel only when no response has that tag (stated for a
\* server that answered every page as it should).
C7_CallbackGetsResponse ==
    ( outcome = "completed" /\ batch # Null /\ ServedFaithfully ) =>
        \A k \in 1..Len(Queued) :
            Queued[k].bound =>
                LET tag == TagOf(Queued[k].fn)
                    all == AllResponses(pageLog)
                IN  IF \E i \in 1..Len(all) : all[i].tag = tag
                    THEN \E i \in 1..Len(all) :
                            /\ all[i].tag = tag
                            /\ Queued[k].args = all[i].args
                            /\ Queued[k].name = all[i].name
                    ELSE /\ Queued[k].args = NO_RESPONSE.args
                         /\ Queued[k].name = NO_RESPONSE.name

\* -- C8

TaggedByIndex(calls, callbacks) ==
    /\ \A i \in 1..Len(calls) : calls[i].tag = DecStr(i - 1)
    /\ \A k \in 1..Len(callbacks) :
          IF callbacks[k].fn.for = 0 THEN callbacks[k].tag = ""
          ELSE \E i \in 1..Len(calls) :
                  /\ calls[i].args.id = callbacks[k].fn.for
                  /\ callbacks[k].tag = DecStr(i - 1)

\* C8: the tag of every call of a batch is the decimal string of its
\* position (from 0) in the batch, and the tag of every callback passed with
\* a call is the position of that call.
C8_TagIsIndex ==
    /\ TaggedByIndex(sendQueue, callbackQueue)
    /\ inFlightRemoteCalls # Null =>
          TaggedByIndex(Val(inFlightRemoteCalls), Val(inFlightCallbacks))

\* A second batch is in flight, with a callback passed with its second call.
C8_Witness ==
    /\ inFlightRemoteCalls # Null
    /\ Len(Val(inFlightRemoteCalls)) >= 2
    /\ Val(inFlightRemoteCalls)[1].args.id > 1
    /\ \E k \in 1..Len(Val(inFlightCallbacks)) :
          Val(inFlightCallbacks)[k].tag = "1"

\* -- C9

DiscardStatuses == {400, 413, 500} \cup (IF willRetry THEN {} ELSE {0})

C9_Discard ==
    ( ioStatus = NoStatus /\ ioStatus' \in DiscardStatuses ) =>
        /\ inFlightRemoteCalls' = Null
        /\ inFlightCallbacks' = Null
        /\ pageLog' = pageLog
        /\ Len(middleQueue') = Len(middleQueue) + Len(Val(inFlightCallbacks))
        /\ \A k \in 1..Len(Val(inFlightCallbacks)) :
              LET tuple == Val(inFlightCallbacks)[k]
                  queued == middleQueue'[Len(middleQueue) + k]
              IN  /\ queued.fn = tuple.fn
                  /\ queued.bound = (tuple.tag # "")
                  /\ queued.args = NO_RESPONSE.args
                  /\ scheduled'[tuple.fn.id] = 1

C9_NotAgain ==
    ( outcome = "discarded" /\ batch # Null /\ outstanding' = outstanding + 1 ) =>
        Range(Val(inFlightRequest').methodCalls) \cap Range(BatchCalls) = {}

\* C9: on status 400, 413 or 500, and on any other failure when willRetry is
\* false, ioDidFail runs no response handler, queues every callback of the
\* batch exactly once (one passed with a call is given the empty error
\* sentinel), sets inFlightRemoteCalls and inFlightCallbacks to null, and no
\* later request carries a call of the batch.
C9_DiscardedOnFailure ==
    /\ [] (\A id \in 1..MaxCallbacks : scheduled[id] <= 1)
    /\ [][C9_Discard]_vars
    /\ [][C9_NotAgain]_vars

\* The second page of a batch met a 500; its callback holds the sentinel.
C9_Witness ==
    /\ ioStatus = 500 /\ outcome = "discarded"
    /\ pageLog # << >>
    /\ inFlightRemoteCalls = Null
    /\ \E k \in 1..Len(middleQueue) :
          middleQueue[k].bound /\ middleQueue[k].args = NO_RESPONSE.args

\* -- C10

KeepStatuses == {401, 404, 429, 502, 503, 504} \cup (IF willRetry THEN {0} ELSE {})

C10_Keep ==
    ( ioStatus = NoStatus /\ ioStatus' \in KeepStatuses ) =>
        /\ inFlightRemoteCalls # Null /\ inFlightRemoteCalls' = inFlightRemoteCalls
        /\ inFlightCallbacks # Null /\ inFlightCallbacks' = inFlightCallbacks
        /\ middleQueue' = middleQueue
        /\ scheduled' = scheduled
        /\ pageLog' = pageLog

C10_Resend ==
    ( outcome = "kept" /\ outstanding' = outstanding + 1 ) =>
        /\ inFlightRequest' = lastSent
        /\ inFlightRemoteCalls' = inFlightRemoteCalls
        /\ inFlightCallbacks' = inFlightCallbacks

\* C10: on status 401, 404, 429, 502, 503 or 504, and on any other failure
\* when willRetry is true, ioDidFail keeps inFlightRemoteCalls and
\* inFlightCallbacks and queues no callback, and the next request send()
\* makes is the request that failed: the same page, for a batch sent in
\* pages (maxCallsInRequest does not change meanwhile).
C10_KeptOnFailure == [][C10_Keep]_vars /\ [][C10_Resend]_vars

\* The second page of a batch was sent again after a failure that kept it.
C10_Witness ==
    /\ outcome = "resent" /\ ~answered
    /\ inFlightRequest # Null /\ inFlightRequest = lastSent
    /\ inFlightContext # Null /\ Val(inFlightContext).doneCount > 0

\* -- C11

\* What ioDidSucceed did with the response: kept the batch for auth to
\* retry, or dispatched it to the handlers.
KeptForRetry ==
    /\ inFlightRemoteCalls' = inFlightRemoteCalls
    /\ inFlightCallbacks' = inFlightCallbacks
    /\ inFlightContext' = inFlightContext
    /\ pageLog' = pageLog
    /\ middleQueue' = middleQueue
    /\ scheduled' = scheduled
    /\ ~authReady'

Dispatched ==
    /\ Len(pageLog') = Len(pageLog) + 1
    /\ authReady'

Absent(data) == data.methodResponses = Null

SomeUnavailable(data) ==
    /\ ~Absent(data)
    /\ \E i \in 1..Len(Val(data.methodResponses)) :
          serverUnavailable(Val(data.methodResponses)[i])

EveryUnavailable(data) ==
    /\ ~Absent(data)
    /\ Val(data.methodResponses) # << >>
    /\ \A i \in 1..Len(Val(data.methodResponses)) :
          serverUnavailable(Val(data.methodResponses)[i])

C11_SomeStep ==
    ( ioStatus = NoStatus /\ ioStatus' = 200 ) =>
        IF willRetry /\ (Absent(Val(ioData')) \/ SomeUnavailable(Val(ioData')))
        THEN KeptForRetry ELSE Dispatched

C11_EveryStep ==
    ( ioStatus = NoStatus /\ ioStatus' = 200 ) =>
        IF willRetry /\ (Absent(Val(ioData')) \/ EveryUnavailable(Val(ioData')))
        THEN KeptForRetry ELSE Dispatched

\* C11, as the code has it: a 200 response is treated as a connection
\* failure (batch kept for auth to retry, no handler and no callback run)
\* exactly when willRetry is set and methodResponses is absent or holds at
\* least one serverUnavailable error; any other response is dispatched.
C11_FailureOnSomeUnavailable == [][C11_SomeStep]_vars

\* C11, as stated: the failure case is taken exactly when willRetry is set
\* and methodResponses is absent or every method response is a
\* serverUnavailable error; a response in which only some are is dispatched.
C11_FailureOnEveryUnavailable == [][C11_EveryStep]_vars

\* A response of two method responses, the first a serverUnavailable error
\* and the second a result, was treated as a connection failure.
C11_Witness ==
    /\ ioStatus = 200 /\ outcome = "kept" /\ willRetry
    /\ SomeUnavailable(Val(ioData)) /\ ~EveryUnavailable(Val(ioData))
    /\ Len(Val(Val(ioData).methodResponses)) = 2

\* -- C12

\* The request answered carried the last calls of the batch.
LastPageInFlight ==
    \/ inFlightContext = Null
    \/ Val(inFlightContext).doneCount + Len(InFlightPage)
           >= Len(Val(inFlightRemoteCalls))

C12_Step ==
    ( ioStatus = NoStatus /\ ioStatus' = 200 /\ Dispatched ) =>
        IF LastPageInFlight
        THEN /\ inFlightRemoteCalls' = Null
             /\ inFlightCallbacks' = Null
             /\ inFlightContext' = Null
        ELSE /\ inFlightRemoteCalls' = inFlightRemoteCalls
             /\ inFlightCallbacks' = inFlightCallbacks
             /\ inFlightRemoteCalls # Null /\ inFlightCallbacks # Null
             /\ inFlightContext' # Null
             /\ Val(inFlightContext').doneCount
                    = Val(inFlightContext).doneCount + Len(InFlightPage)

\* C12: once a 200 response has been dispatched, inFlightRemoteCalls,
\* inFlightCallbacks and the pagination context are all null when the page
\* answered was the last of the batch; otherwise the first two are unchanged
\* and the context has doneCount advanced by the number of calls just sent.
C12_SlotsAfterSuccess == [][C12_Step]_vars

\* The first page of a batch has just been dispatched and more remain.
C12_Witness ==
    /\ ioStatus = 200 /\ outcome \in {"inflight", "resent"}
    /\ Len(pageLog) = 1
    /\ inFlightRemoteCalls # Null /\ inFlightCallbacks # Null
    /\ inFlightContext # Null
    /\ Val(inFlightContext).doneCount = Len(InFlightPage)
    /\ Val(inFlightContext).doneCount < Len(Val(inFlightRemoteCalls))

\* -- C13

Names(calls) == [i \in 1..Len(calls) |-> calls[i].name]

\* The method names the pending work stands for, in the order claimed.
ExpectedNames ==
    Names(sendQueue)
    \o (IF queriesToFetch # {} THEN << "Email/query" >> ELSE << >>)
    \o (IF "CalendarEvent" \in typesToRefresh
        THEN << "CalendarEvent/changes", "CalendarEvent/get", "CalendarEvent/get" >>
        ELSE << >>)
    \o (IF "Message" \in recordsToRefresh THEN << "Email/get" >> ELSE << >>)
    \o (IF "CalendarEvent" \in typesToFetch THEN << "CalendarEvent/get" >> ELSE << >>)
    \o (IF "MessageThread" \in recordsToFetch
        THEN << "Email/get", "Thread/get", "Email/get" >> ELSE << >>)

QueuesEmpty ==
    /\ sendQueue = << >> /\ callbackQueue = << >>
    /\ queriesToFetch = {} /\ typesToRefresh = {} /\ recordsToRefresh = {}
    /\ typesToFetch = {} /\ recordsToFetch = {}

C13_Step ==
    ( sendQueued /\ ~sendQueued' /\ inFlightRemoteCalls = Null
      /\ inFlightRequest = Null /\ authReady ) =>
        /\ QueuesEmpty'
        /\ IF ExpectedNames = << >>
           THEN inFlightRemoteCalls' = Null
           ELSE /\ inFlightRemoteCalls' # Null
                /\ Names(Val(inFlightRemoteCalls')) = ExpectedNames

\* C13: when send() runs with nothing in flight, all the work appended is
\* put in one batch and every pending queue is left empty; the batch holds
\* the directly called methods first, then the calls of the query fetches,
\* type refreshes, record refreshes, type fetches and record fetches.
C13_OneBatchInOrder == [][C13_Step]_vars

\* A batch made of direct calls and of work of each of the five kinds.
C13_Witness ==
    /\ inFlightRemoteCalls # Null
    /\ Len(Val(inFlightRemoteCalls)) = MaxDirect + 9
    /\ QueuesEmpty

\* ---- C14
\* value with every key holding null left out of its plain objects
RECURSIVE WithoutNulls(_)
WithoutNulls(value) ==
    IF value.kind # "object" THEN value
    ELSE [value EXCEPT !.fields = {<< e[1], WithoutNulls(e[2]) >> :
                                      e \in {f \in @ : f[2] # JNull}}]

\* current holds a plain object only where original holds a plain object, a
\* falsy value or nothing.
RECURSIVE ObjectsOverObjects(_, _)
ObjectsOverObjects(original, current) ==
    current.kind = "object" =>
        \/ ~Truthy(original)
        \/ /\ original.kind = "object"
           /\ \A key \in Keys(current) :
                 ObjectsOverObjects(Get(original, key), Get(current, key))

Patchable ==
    /\ pure.original.kind = "object"
    /\ pure.current.kind = "object"
    /\ ObjectsOverObjects(pure.original, pure.current)

C14_WitnessNull ==
    /\ pure.stage = "patched"
    /\ pure.relative
    /\ Patchable
    /\ pure.patched # pure.current
    /\ WithoutNulls(pure.patched) = WithoutNulls(pure.current)

\* ---- C15
\* The component makePatches wrote for the key: the path after "a/".
Component == {SubSeq(e[1], 3, Len(e[1])) : e \in pure.patches}

\* C15: the path component makePatches writes for a key holds no '/', and
\* applyPatch and isValidPatch both decode it to exactly that key.
C15_KeyRoundTrip ==
    pure.stage = "read" =>
        /\ Component = {escape(pure.key)}
        /\ \A c \in Component : indexOf(c, "/") = -1
        /\ pure.patched =
               Object(<< "a" >>, Object(pure.key, Number("1")))
        /\ pure.valid = {pure.key}

C15_Witness ==
    /\ pure.stage = "read"
    /\ pure.key = << "~", "1", "/" >>
    /\ Component = {<< "~", "0", "1", "~", "1" >>}
    /\ pure.valid = {pure.key}

\* ---- C16
\* The update patch of the record, and what was diffed to make it.
UpdatePatch == (CHOOSE u \in Val(Val(pure.request).update) : TRUE)[2]

Marked ==
    {key \in Keys(pure.change.update.changes[1]) :
        Truthy(Get(pure.change.update.changes[1], key))}

Committed(key) == Get(pure.change.update.committed[1], key)

Current(key) == Get(pure.change.update.records[1], key)

PatchAt(path) == \E e \in UpdatePatch : e[1] = path

Beneath(key, path) ==
    Len(path) > Len(key) + 1 /\ SubSeq(path, 1, Len(key) + 1) = key \o << "/" >>

\* The keys of both values are diffed one by one when both are plain
\* objects; otherwise the attribute is diffed as a whole.
DiffedByKey(key) ==
    Committed(key).kind = "object" /\ Current(key).kind = "object"

\* C16: the update patch makeSetRequest builds has only keys that are an
\* attribute marked in changes[i] or a path beneath one, never accountId,
\* and has a key for a marked attribute or a sub-path exactly where the
\* committed and the current value differ; committed { subject: "a",
\* keywords: { $seen: true } } and current { subject: "b", keywords: {} }
\* give { "subject": "b", "keywords/$seen": null }.
C16_UpdatePatch ==
    pure.stage = "request" =>
        /\ \A e \in UpdatePatch :
              \E key \in Marked : e[1] = key \/ Beneath(key, e[1])
        /\ ~PatchAt(<< "accountId" >>)
        /\ \A key \in Marked \ {<< "accountId" >>} :
              IF DiffedByKey(key)
              THEN /\ ~PatchAt(key)
                   /\ \A k \in Keys(Committed(key)) \cup Keys(Current(key)) :
                         PatchAt(key \o << "/" >> \o escape(k)) <=>
                             Get(Committed(key), k) # Get(Current(key), k)
              ELSE /\ PatchAt(key) <=> Committed(key) # Current(key)
                   /\ \A e \in UpdatePatch : ~Beneath(key, e[1])
        /\ (/\ Marked = {<< "subject" >>, << "keywords" >>}
            /\ Committed(<< "subject" >>) = String("a")
            /\ Committed(<< "keywords" >>) =
                   Object(<< "$seen" >>, Boolean("true"))
            /\ Current(<< "subject" >>) = String("b")
            /\ Current(<< "keywords" >>) = JSON("object", "", {}))
           => UpdatePatch = {<< << "subject" >>, String("b") >>,
                             << << "keywords", "/", "$seen" >>, JNull >>}

\* ---- C17
Specific == << "error_" >> \o pure.requestName \o << "_", pure.type >>

OfName == << "error_" >> \o pure.requestName

OfVerb == << "error_" >> \o verbOf(pure.requestName)

OfType == << "error_", pure.type >>

Layers == << Specific, OfName, OfVerb, OfType >>

\* C17: the handler error_<Method>_<type> is called alone when it is
\* registered; otherwise the first registered of error_<Method> and
\* error_/<verb> is called, and after it error_<type> when that is
\* registered; when none of the four is registered the error is only
\* logged and no handler runs.
C17_LayeredWithType ==
    pure.stage = "handled" =>
        /\ Specific \in pure.response => pure.called = << Specific >>
        /\ Specific \notin pure.response =>
              pure.called =
                  SelectSeq(<< OfName, OfVerb, OfType >>,
                      LAMBDA method :
                          /\ method \in pure.response
                          /\ method = OfVerb => OfName \notin pure.response)
        /\ pure.logged <=> \A i \in 1..4 : Layers[i] \notin pure.response
        /\ pure.logged => pure.called = << >>

\* C17 as stated: the first registered of error_<Method>_<type>,
\* error_<Method>, error_/<verb>, error_<type> is called and no less
\* specific one; when none is registered the error is only logged.
C17_FirstOnly ==
    pure.stage = "handled" =>
        /\ \A i \in 1..4 :
              (Layers[i] \in pure.response /\
               \A j \in 1..(i - 1) : Layers[j] \notin pure.response)
                  => pure.called = << Layers[i] >>
        /\ (\A i \in 1..4 : Layers[i] \notin pure.response)
              => (pure.called = << >> /\ pure.logged)

C17_Witness ==
    /\ pure.stage = "handled"
    /\ pure.requestName = << "Email", "/", "set" >>
    /\ pure.type = "accountNotFound"
    /\ pure.called = << << "error_", "/", "set" >>,
                        << "error_", "accountNotFound" >> >>

\* ---- C18
Reported(call, keys) ==
    keys # {} =>
        \E i \in 1..Len(pure.store) :
            /\ pure.store[i].call = call
            /\ keys \subseteq pure.store[i].keys
            /\ pure.store[i].errors = Some(pure.args)

Attempted(ids) == IF ids = Null THEN {} ELSE Val(ids)

\* C18: after a method-level error of a <Type>/set or <Type>/copy call the
\* store is told of every id in create, update and destroy as not created,
\* not updated or not destroyed, with that error, and of none as committed.
C18_AllReportedFailed ==
    pure.stage = "handled" =>
        /\ Reported("sourceDidNotCreate", Attempted(pure.requestArgs.create))
        /\ Reported("sourceDidNotUpdate",
                    Keyed("A", Attempted(pure.requestArgs.update)))
        /\ Reported("sourceDidNotDestroy",
                    Keyed("A", Attempted(pure.requestArgs.destroy)))
        /\ \A i \in 1..Len(pure.store) :
              pure.store[i].call \notin {"sourceDidCommitCreate",
                  "sourceDidCommitUpdate", "sourceDidCommitDestroy"}

\* ---- C19
Handled(handler) ==
    pure'.responses = pure.responses + 1 /\ pure'.handler = handler

Called(state, call) ==
    \E i \in 1..Len(state.calls) : state.calls[i].call = call

\* The value one step above value in the schedule.
StepUp(schedule, value) ==
    schedule[(CHOOSE i \in 1..Len(schedule) : schedule[i] = value) + 1]

C19_Values ==
    /\ pure.messageChangesMaxChanges \in {50, 100, 150}
    /\ pure.threadUpdateMaxChanges \in {30, 100, 120}

C19_Step ==
    /\ C19_Values'
    /\ Handled("Email/changes") =>
          IF ~pure'.hasMore
          THEN pure'.messageChangesMaxChanges = 50
          ELSE IF pure.messageChangesMaxChanges # 150
          THEN /\ pure'.messageChangesMaxChanges =
                      StepUp(<< 50, 100, 150 >>, pure.messageChangesMaxChanges)
               /\ Called(pure', "fetchMoreChanges")
               /\ pure'.obsolete = pure.obsolete
          ELSE /\ pure'.messageChangesMaxChanges = 50
               /\ ~Called(pure', "fetchMoreChanges")
               /\ pure'.obsolete =
                      pure.obsolete \cup
                      {message \in DOMAIN pure.accountOf :
                          pure.accountOf[message] = pure'.accountId}
               /\ pure'.calls[Len(pure'.calls)].call = "sourceDidFetchUpdates"
               /\ pure'.calls[Len(pure'.calls)].newState = ""
    /\ Handled("threadUpdates") =>
          IF ~pure'.hasMore
          THEN pure'.threadUpdateMaxChanges = 30
          ELSE IF pure.threadUpdateMaxChanges # 120
          THEN /\ pure'.threadUpdateMaxChanges =
                      StepUp(<< 30, 100, 120 >>, pure.threadUpdateMaxChanges)
               /\ Called(pure', "fetchAll")
          ELSE /\ pure'.threadUpdateMaxChanges = 30
               /\ ~Called(pure', "fetchAll")
               /\ Called(pure',
                         "error_getThreadUpdates_cannotCalculateChanges")

\* C19: maxChanges of Email/changes is always 50, 100 or 150 (30, 100 or 120
\* for thread updates); a response with 'has more' below the ceiling moves
\* it one step up and fetches again; one at the ceiling runs the
\* cannotCalculateChanges recovery instead and leaves the initial value, as
\* does every response without 'has more'.
C19_Schedule == C19_Values /\ [][C19_Step]_vars

C19_Witness ==
    /\ pure.handler = "Email/changes"
    /\ pure.hasMore
    /\ pure.messageChangesMaxChanges = 50
    /\ pure.threadUpdateMaxChanges = 120
    /\ pure.obsolete # {}
    /\ Called(pure, "sourceDidFetchUpdates")
    /\ ~Called(pure, "fetchMoreChanges")

\* ---- C20
\* C20: the handler of a cannotCalculateChanges error of Email/changes for
\* an account marks every Message of that account obsolete and no other,
\* and its last call gives the store sourceDidFetchUpdates( account,
\* Message, null, null, the current state, '' ).
C20_Step ==
    Handled("error_Email/changes_cannotCalculateChanges") =>
        /\ pure'.obsolete =
               pure.obsolete \cup
               {message \in DOMAIN pure.accountOf :
                   pure.accountOf[message] = pure'.accountId}
        /\ pure'.calls[Len(pure'.calls)] =
               [call |-> "sourceDidFetchUpdates",
                accountId |-> pure'.accountId, Type |-> "Message",
                updated |-> Null, destroyed |-> Null,
                oldState |-> getTypeState(pure'.accountId), newState |-> ""]

C20_ObsoleteOneAccount == [][C20_Step]_vars

C20_Witness ==
    /\ pure.handler = "error_Email/changes_cannotCalculateChanges"
    /\ pure.accountId = "A"
    /\ pure.responses = 1
    /\ pure.obsolete # {}
    /\ pure.obsolete = {message \in DOMAIN pure.accountOf : pure.accountOf[message] = "A"}
    /\ \E message \in DOMAIN pure.accountOf : pure.accountOf[message] = "B"
\* ---- C21
\* C21: a handle() call on one connection leaves every lookup of every
\* other connection as it was, in all six registries; the handlers it
\* registers are found on the calling connection, and a key a connection has
\* not registered itself resolves to the handler of the base registry.
C21_Keys == {"Message", "error", "error_/set", "Email/set"}

C21_Step ==
    pure'.source # Null =>
        /\ \A connection \in DOMAIN pure.own \ {Val(pure'.source)},
              propName \in DOMAIN prototype, key \in C21_Keys :
              lookup(pure', connection, propName, key) =
                  lookup(pure, connection, propName, key)
        /\ \A h \in pure'.handlers :
              lookup(pure', Val(pure'.source),
                     IF handleProps(h[1]) = "" THEN "response"
                     ELSE handleProps(h[1]),
                     IF handleProps(h[1]) = "" THEN h[1] ELSE "Message") = h[2]
        /\ \A connection \in DOMAIN pure.own,
              propName \in DOMAIN prototype, key \in C21_Keys :
              lookup(pure', connection, propName, key) \in
                  {connection,
                   lookup([shared |-> prototype,
                           own |-> [c \in DOMAIN pure.own |->
                                       [p \in DOMAIN prototype |-> Null]]],
                          connection, propName, key)}

C21_OwnRegistries == [][C21_Step]_vars

\* calendar has shadowed the base handler of error_/set and registered a
\* fetcher, and mail still finds the base handler and no fetcher
C21_Witness ==
    /\ pure.source = Some("calendar")
    /\ lookup(pure, "calendar", "response", "error_/set") = "calendar"
    /\ lookup(pure, "calendar", "recordFetchers", "Message") = "calendar"
    /\ lookup(pure, "calendar", "response", "error") = "Connection"
    /\ lookup(pure, "mail", "response", "error_/set") = "Connection"
    /\ lookup(pure, "mail", "recordFetchers", "Message") = ""
    /\ pure.own["mail"]["commitPrecedence"] # Null
\* ---- C22
\* C22: in a sequence that is started once with go and not cancelled, the
\* steps started are queue[ 0 ], queue[ 1 ], ... in this order, each once;
\* every step but the first starts at the moment the step before it calls
\* next and receives the value passed to that call; and when a step calls
\* next with no step left, the terminal hook is called with
\* ( length, length ).
C22_Once(trace) == Count(trace, "go") <= 1 /\ Count(trace, "cancel") = 0

C22_Steps(trace) == SelectSeq(trace, LAMBDA event : event.e = "step")

C22_InOrder ==
    C22_Once(pure.trace) =>
        /\ \A k \in 1..Len(C22_Steps(pure.trace)) :
              /\ C22_Steps(pure.trace)[k].at = k - 1
              /\ C22_Steps(pure.trace)[k].fn = pure.queue[k]
        /\ \A i \in 1..Len(pure.trace) :
              pure.trace[i].e = "step" /\ pure.trace[i].at > 0 =>
                  /\ pure.trace[i - 1].e = "next"
                  /\ pure.trace[i - 1].at = pure.trace[i].at - 1
                  /\ pure.trace[i - 1].data = pure.trace[i].data

C22_Step ==
    /\ C22_Once(pure'.trace)
    /\ Len(pure'.trace) > Len(pure.trace)
    /\ pure'.trace[Len(pure.trace) + 1].e = "next"
    /\ pure'.trace[Len(pure.trace) + 1].at = pure.length - 1
    => pure'.trace = SubSeq(pure'.trace, 1, Len(pure.trace) + 1) \o
                     << Event("afterwards", pure.length, pure.afterwards,
                              "", pure.length) >>

C22_StepsInOrder == []C22_InOrder /\ [][C22_Step]_vars

\* three steps have run, the second and third with the values passed on,
\* and the hook has been called with ( 3, 3 )
C22_Witness ==
    /\ C22_Once(pure.trace)
    /\ pure.queue = << "f", "g", "f" >>
    /\ Len(C22_Steps(pure.trace)) = 3
    /\ C22_Steps(pure.trace)[2].data = "a"
    /\ C22_Steps(pure.trace)[3].data = "b"
    /\ pure.trace[Len(pure.trace)] = Event("afterwards", 3, "done", "", 3)
\* ---- C23
\* C23: cancel() on a sequence with steps whose terminal hook has not fired
\* yet sets length to 0 and calls the hook with the index and the length of
\* that moment, and no step starts after such a cancel.
C23_Fired(trace) == Count(trace, "afterwards") > 0

C23_Step ==
    /\ Len(pure'.trace) > Len(pure.trace)
    /\ pure'.trace[Len(pure.trace) + 1].e = "cancel"
    /\ pure.length > 0
    /\ ~C23_Fired(pure.trace)
    => /\ pure'.length = 0
       /\ pure'.trace = SubSeq(pure'.trace, 1, Len(pure.trace) + 1) \o
                        << Event("afterwards", pure.index, pure.afterwards,
                                 "", pure.length) >>

C23_NoStepAfter ==
    \A i \in 1..Len(pure.trace) :
        /\ pure.trace[i].e = "cancel"
        /\ pure.trace[i].length > 0
        /\ ~C23_Fired(SubSeq(pure.trace, 1, i))
        => \A j \in (i + 1)..Len(pure.trace) : pure.trace[j].e # "step"

C23_CancelStops == []C23_NoStepAfter /\ [][C23_Step]_vars
\* ---- C24
\* The value a path leads to in an object, component by component; the
\* empty path leads to the object itself.
RECURSIVE C24_At(_, _)
C24_At(object, path) ==
    IF path = << >> THEN object
    ELSE IF object.kind # "object" THEN Undefined
    ELSE LET slash == indexOf(path, "/")
         IN  IF slash = -1 THEN Get(object, unescape(path))
             ELSE C24_At(Get(object, unescape(SubSeq(path, 1, slash))),
                         SubSeq(path, slash + 2, Len(path)))

\* All components of a path but the last.
C24_Prefix(path) ==
    LET slashes == {i \in 1..Len(path) : path[i] = "/"}
    IN  IF slashes = {} THEN << >>
        ELSE SubSeq(path, 1, (CHOOSE i \in slashes :
                                 \A j \in slashes : j <= i) - 1)

C24_Resolves(data, path) == C24_At(data, C24_Prefix(path)).kind = "object"

\* C24: once the 'before' phase has run after a change of locations, links,
\* participants or alerts, every patch path left in an override has a prefix
\* that leads to an object in the event's data; and the phase removes
\* nothing else: the overrides are the same ones, each with the patches
\* whose prefix resolves.
C24_Step ==
    pure.before = "queued" /\ pure'.before = "run" /\
    pure.recurrenceOverrides # Null =>
        /\ pure'.recurrenceOverrides # Null
        /\ DOMAIN Val(pure'.recurrenceOverrides) =
               DOMAIN Val(pure.recurrenceOverrides)
        /\ \A recurrenceId \in DOMAIN Val(pure.recurrenceOverrides) :
              Val(pure'.recurrenceOverrides)[recurrenceId] =
                  {e \in Val(pure.recurrenceOverrides)[recurrenceId] :
                      C24_Resolves(pure.data, e[1])}

C24_Clean ==
    pure.before = "run" /\ pure.recurrenceOverrides # Null =>
        \A recurrenceId \in DOMAIN Val(pure.recurrenceOverrides) :
            \A e \in Val(pure.recurrenceOverrides)[recurrenceId] :
                C24_Resolves(pure.data, e[1])

C24_NoInvalidPatch == []C24_Clean /\ [][C24_Step]_vars

\* the location L1 is gone and "L/2" is there: the second override has
\* lost its patch of L1 and kept the one of "L/2"; the first kept its title
C24_Witness ==
    /\ pure.before = "run"
    /\ C24_At(pure.data, << "locations", "/", "L1" >>) = Undefined
    /\ pure.recurrenceOverrides =
           Some([recurrenceId \in {1, 2} |->
                   IF recurrenceId = 1
                   THEN {<< << "title" >>, String("v") >>}
                   ELSE {<< << "locations", "/", "L", "~", "1", "2", "/",
                               "name" >>, String("v") >>}])
\* ---- C25
\* C25: when start goes from s to s + D, both dates of whole seconds, the
\* overrides afterwards are the overrides before with every recurrence id
\* moved by D: as many as before, each with the payload it had.
C25_Seconds(start) == start # Null /\ Val(start) % 2 = 0

C25_Step ==
    /\ C25_Seconds(pure.start)
    /\ C25_Seconds(pure'.start)
    /\ pure.recurrenceOverrides # Null
    => LET D == (Val(pure'.start) - Val(pure.start)) \div 2
           old == Val(pure.recurrenceOverrides)
       IN  /\ pure'.recurrenceOverrides # Null
           /\ DOMAIN Val(pure'.recurrenceOverrides) =
                  {id + D : id \in DOMAIN old}
           /\ Cardinality(DOMAIN Val(pure'.recurrenceOverrides)) =
                  Cardinality(DOMAIN old)
           /\ \A id \in DOMAIN old :
                  Val(pure'.recurrenceOverrides)[id + D] = old[id]

C25_ShiftedOverrides == [][C25_Step]_vars

\* three overrides of an event moved by two seconds, once
C25_Witness ==
    /\ pure.sets = 1
    /\ pure.start = Some(4)
    /\ pure.recurrenceOverrides # Null
    /\ DOMAIN Val(pure.recurrenceOverrides) = {2, 3, 5}
    /\ Val(pure.recurrenceOverrides)[2] = "excluded"
    /\ Val(pure.recurrenceOverrides)[3] = "moved"
\* ---- C26
\* C26: allStartDates of an event whose rule has neither count nor until is
\* the start alone; of an event with a bounded rule it is, in ascending
\* order and each date once, the dates of the rule without the ids the
\* overrides mark excluded and with the ids they do not.
C26_Ascending(dates) ==
    \A i \in 1..(Len(dates) - 1) : dates[i] < dates[i + 1]

C26_Expected(event) ==
    LET dates == getOccurrences(Val(event.recurrenceRule), event.start,
                                Null, Null)
        overrides == IF event.recurrenceOverrides = Null THEN << >>
                     ELSE Val(event.recurrenceOverrides)
        excluded(id) == \E e \in overrides[id].fields :
                            e[1] = << "excluded" >> /\ e[2] = Boolean("true")
    IN  (dates \ {fromJSON(id) : id \in {i \in DOMAIN overrides : excluded(i)}})
        \cup {fromJSON(id) : id \in {i \in DOMAIN overrides : ~excluded(i)}}

C26_AllStartDates ==
    pure.called = "allStartDates" /\ pure.event.recurrenceRule # Null =>
        IF Val(pure.event.recurrenceRule).count = 0 /\
           Val(pure.event.recurrenceRule).until = Null
        THEN pure.result = Some(<< pure.event.start >>)
        ELSE /\ C26_Ascending(Val(pure.result))
             /\ Range(Val(pure.result)) = C26_Expected(pure.event)

\* a rule of four weeks with the second week excluded and a date added
C26_Witness ==
    /\ pure.called = "allStartDates"
    /\ pure.event.recurrenceRule # Null
    /\ Val(pure.event.recurrenceRule).count = 4
    /\ pure.result = Some(<< At(0, 10), At(14, 10), At(21, 10), At(21, 11) >>)

\* an unbounded rule with overrides
C26_WitnessUnbounded ==
    /\ pure.called = "allStartDates"
    /\ pure.event.recurrenceRule # Null
    /\ Val(pure.event.recurrenceRule).count = 0
    /\ Val(pure.event.recurrenceRule).until = Null
    /\ pure.event.recurrenceOverrides # Null
    /\ DOMAIN Val(pure.event.recurrenceOverrides) # {}
    /\ pure.result = Some(<< At(0, 10) >>)
\* ---- C27
\* The event with start 2024-06-01T10:00, a weekly rule with count 4, the
\* date of 2024-06-08T10:00 excluded and an override at 2024-06-22T11:00
\* with a start, asked for the occurrences of June.
C27_Asked ==
    /\ pure.called = "getOccurrencesThatMayBeInDateRange"
    /\ pure.range = << At(0, 0), At(30, 0) >>
    /\ pure.event.start = At(0, 10)
    /\ pure.event.recurrenceRule =
           Some([frequency |-> "weekly", count |-> 4, until |-> Null])
    /\ pure.event.recurrenceOverrides # Null
    /\ DOMAIN Val(pure.event.recurrenceOverrides) =
           {toJSON(At(7, 10)), toJSON(At(21, 11))}
    /\ Val(pure.event.recurrenceOverrides)[toJSON(At(7, 10))] =
           JSON("object", "", {<< << "excluded" >>, Boolean("true") >>})
    /\ Val(pure.event.recurrenceOverrides)[toJSON(At(21, 11))] =
           JSON("object", "",
                {<< << "start" >>, String("2024-06-22T11:00:00") >>})

\* C27 as stated: the occurrences are four, on 06-01, 06-15, 06-22 and
\* 06-29, none on 06-08.
C27_FourWeeks ==
    C27_Asked =>
        /\ pure.result # Null
        /\ Len(Val(pure.result)) = 4
        /\ {id \div (24 * 3600) : id \in Range(Val(pure.result))} =
               {0, 14, 21, 28}

\* C27: the occurrences are those of the recurrence ids 06-01T10:00,
\* 06-15T10:00, 06-22T10:00 and 06-22T11:00: count 4 ends the rule on
\* 06-22, the date of 06-08 is excluded, and the override at 11:00, which
\* is no date of the rule, is one more occurrence.
C27_JuneOccurrences ==
    C27_Asked =>
        pure.result = Some(<< toJSON(At(0, 10)), toJSON(At(14, 10)),
                              toJSON(At(21, 10)), toJSON(At(21, 11)) >>)

C27_Witness ==
    /\ C27_Asked
    /\ pure.result # Null
    /\ Len(Val(pure.result)) = 4
    /\ pure.ocache = Range(Val(pure.result))
\* ---- C28
\* The batch is the fetch of one MessageThread and nothing else: Email/get,
\* Thread/get referring to it, Email/get referring to the Thread/get, with
\* the tags "0", "1" and "2".
C28_ThreadBatch ==
    /\ batch # Null
    /\ maxCallsInRequest = 2
    /\ [i \in 1..Len(BatchCalls) |-> BatchCalls[i].name] =
           << "Email/get", "Thread/get", "Email/get" >>
    /\ [i \in 1..Len(BatchCalls) |-> BatchCalls[i].tag] = << "0", "1", "2" >>
    /\ BatchCalls[2].args.ref = "0"
    /\ BatchCalls[3].args.ref = "1"

\* C28: with maxCallsInRequest = 2 the first HTTP request of that batch
\* holds the calls 0 and 1 and the second holds the call 2, with the
\* createdIds the first response gave.
C28_ThreadPages ==
    C28_ThreadBatch =>
        /\ inFlightRequest # Null =>
              InFlightPage \in {SubSeq(BatchCalls, 1, 2),
                                SubSeq(BatchCalls, 3, 3)}
        /\ \A i \in 1..Len(pageLog) :
              pageLog[i].sent = IF i = 1 THEN SubSeq(BatchCalls, 1, 2)
                                ELSE SubSeq(BatchCalls, 3, 3)
        /\ ( /\ inFlightRequest # Null /\ ioStatus = 200 /\ ioData # Null
             /\ Len(pageLog) = 1 /\ InFlightPage # pageLog[1].sent )
           => Val(inFlightRequest).createdIds = Val(ioData).createdIds
\* ---- C29
\* C29: between two changes of start, timeZone, recurrenceRule and
\* recurrenceOverrides the event gives the same handle for the same
\* recurrence id; and after a change of any of the four every handle given
\* before is unloaded and the cache is empty.
C29_Step ==
    /\ ( /\ pure'.returned # 0
         /\ pure.ocache # Null
         /\ \E e \in Val(pure.ocache) : e[1] = pure'.id )
       => << pure'.id, pure'.returned >> \in Val(pure.ocache)
    /\ pure'.changed \in {"start", "timeZone", "recurrenceRule",
                          "recurrenceOverrides"}
       => /\ pure'.ocache = Null
          /\ pure'.unloaded = 1..pure'.made

C29_HandlesOfAttributes == [][C29_Step]_vars
\* ---- C30
\* The number of calls of the batch the pages answered so far held.
RECURSIVE C30_Done(_)
C30_Done(log) ==
    IF log = << >> THEN 0
    ELSE Len(log[Len(log)].sent) + C30_Done(SubSeq(log, 1, Len(log) - 1))

\* C30: every HTTP request holds at least one call and at most
\* maxCallsInRequest calls, and they are the calls of the batch that follow
\* the calls of the pages answered before; doneCount grows with every page
\* answered that is not the last, and a batch has no more pages than calls.
C30_Page ==
    /\ ( inFlightRequest # Null /\ inFlightRemoteCalls # Null /\
         batch # Null /\ ~answered )
       => /\ Len(InFlightPage) >= 1
          /\ Len(InFlightPage) <= maxCallsInRequest
          /\ C30_Done(pageLog) + Len(InFlightPage) <= Len(BatchCalls)
          /\ InFlightPage = SubSeq(BatchCalls, C30_Done(pageLog) + 1,
                                   C30_Done(pageLog) + Len(InFlightPage))
    /\ batch # Null => Len(pageLog) <= Len(BatchCalls)

C30_Step ==
    /\ inFlightContext # Null
    /\ inFlightContext' # Null
    /\ Len(pageLog') > Len(pageLog)
    => Val(inFlightContext').doneCount > Val(inFlightContext).doneCount

C30_PagesAdvance == []C30_Page /\ [][C30_Step]_vars
\* ---- C31
\* The value the components of a path before the last lead to.
C31_Intermediate ==
    IF indexOf(pure.path, "/") = -1 THEN pure.object
    ELSE IF C24_Prefix(pure.path) = << >> THEN Get(pure.object, << >>)
    ELSE C24_At(pure.object, C24_Prefix(pure.path))

\* One path begins with the other.
C31_Along(path, other) ==
    \/ Len(other) >= Len(path) /\ SubSeq(other, 1, Len(path)) = path
    \/ Len(path) >= Len(other) /\ SubSeq(path, 1, Len(other)) = other

\* C31: applyPatch ends without an error; it leaves the object as it was
\* when the components before the last do not lead to an object (a value
\* missing, null or primitive on the way), and otherwise the last key holds
\* the patch, or is gone for a null patch, while every other path leads to
\* what it led to before.
C31_PatchOrNothing ==
    "applyPatch" \in pure.called =>
        /\ pure.patched # TypeError
        /\ IF C31_Intermediate.kind # "object"
           THEN pure.patched = pure.object
           ELSE /\ C24_At(pure.patched, pure.path) =
                       IF pure.patch = JNull THEN Undefined ELSE pure.patch
                /\ \A other \in WalkPaths :
                       ~C31_Along(pure.path, other)
                       => C24_At(pure.patched, other) =
                              C24_At(pure.object, other)
\* ---- C32
\* The values the components of a path before the last lead to, one after
\* the other, the object itself first; a string leads on through its
\* indices, any other primitive leads nowhere.
RECURSIVE C32_Reached(_, _)
C32_Reached(object, path) ==
    LET slash == indexOf(path, "/")
    IN  IF slash = -1 THEN {object}
        ELSE {object} \cup
             C32_Reached(IF object.kind \in {"object", "array", "string"}
                         THEN Get(object, unescape(SubSeq(path, 1, slash)))
                         ELSE Undefined,
                         SubSeq(path, slash + 2, Len(path)))

C32_Both == pure.called = {"applyPatch", "isValidPatch"}

\* C32 as stated: isValidPatch is false exactly when the object or a
\* component before the last is missing; and applyPatch changes the object
\* only where isValidPatch is true.
C32_FalseWhenMissing ==
    C32_Both =>
        /\ pure.valid = (Undefined \notin C32_Reached(pure.object, pure.path))
        /\ pure.patched \notin {pure.object, TypeError} => pure.valid

\* C32: isValidPatch is false exactly when the object or the value of a
\* component before the last is missing, null, false, 0 or the empty
\* string, whether or not the last key exists; and applyPatch changes the
\* object only where isValidPatch is true.
C32_FalseWhenFalsy ==
    C32_Both =>
        /\ pure.valid = (\A value \in C32_Reached(pure.object, pure.path) :
                            Truthy(value))
        /\ pure.patched \notin {pure.object, TypeError} => pure.valid

\* a key is written into an object reached through "a", although the key
\* was not there
C32_Witness ==
    /\ C32_Both
    /\ pure.valid
    /\ pure.path = << "a", "/", "b" >>
    /\ pure.object = Object(<< "a" >>, JSON("object", "", {}))
    /\ pure.patched = Object(<< "a" >>, Object(<< "b" >>, Number("7")))

\* a null on the way: not valid, nothing changed
C32_WitnessNull ==
    /\ C32_Both
    /\ ~pure.valid
    /\ pure.path = << "a", "/", "b" >>
    /\ pure.object = Object(<< "a" >>, JNull)
    /\ pure.patched = pure.object
\* ---- C33
C33_Number(typeId) == Val(pure.commitPrecedence)[typeId]

\* C33: after commitChanges, for two handled types with precedences p < q,
\* every call made for the type with p stands in the send queue before
\* every call made for the type with q.
C33_LowerFirst ==
    pure.committed /\ pure.commitPrecedence # Null =>
        \A i, j \in 1..Len(pure.sendQueue) :
            LET a == pure.sendQueue[i].name[1]
                b == pure.sendQueue[j].name[1]
            IN  /\ C33_Number(a) # Null
                /\ C33_Number(b) # Null
                /\ Val(C33_Number(a)) < Val(C33_Number(b))
                => i < j
\* ---- C34
\* The recurrence ids of the occurrences of the event up to the end of
\* June: the dates of the rule, or the start alone without a rule, without
\* the ids the overrides mark excluded and with the ids they do not.
C34_Occurrences ==
    LET event == pure.event
        dates == IF event.recurrenceRule = Null THEN {event.start}
                 ELSE getOccurrences(Val(event.recurrenceRule), event.start,
                                     Null, Some(At(31, 0)))
        overrides == IF event.recurrenceOverrides = Null THEN << >>
                     ELSE Val(event.recurrenceOverrides)
    IN  ({toJSON(date) : date \in dates} \
         {id \in DOMAIN overrides : Has(overrides, id, "excluded")}) \cup
        {id \in DOMAIN overrides : ~Has(overrides, id, "excluded")}

\* The start of an occurrence: its recurrence id, or the start its override
\* gives it (the one start the overrides drawn give is 2024-06-22T11:00).
C34_Start(id) ==
    IF /\ pure.event.recurrenceOverrides # Null
       /\ id \in DOMAIN Val(pure.event.recurrenceOverrides)
       /\ Has(Val(pure.event.recurrenceOverrides), id, "start")
    THEN At(21, 11)
    ELSE fromJSON(id)

\* [start, start + duration) reaches into [rangeStart, rangeEnd); a Date
\* counts half seconds, the duration milliseconds
C34_Intersects(id) ==
    /\ C34_Start(id) < pure.range[2]
    /\ C34_Start(id) + pure.event.duration \div 500 > pure.range[1]

C34_Returned ==
    IF pure.result = Null THEN {} ELSE Range(Val(pure.result))

\* the days the duration is limited to for a rule that has no count
C34_Limit ==
    IF Val(pure.event.recurrenceRule).frequency = "weekly" THEN 7 ELSE 1

C35_Excluded ==
    IF pure.event.recurrenceOverrides = Null THEN {}
    ELSE {id \in DOMAIN Val(pure.event.recurrenceOverrides) :
             \E e \in Val(pure.event.recurrenceOverrides)[id].fields :
                 e[1] = << "excluded" >> /\ e[2] = Boolean("true")}

\* the recurrence ids returned, in the order returned
C35_Ids ==
    IF pure.result = Null THEN << >>
    ELSE IF pure.called = "allStartDates"
    THEN [i \in DOMAIN Val(pure.result) |-> toJSON(Val(pure.result)[i])]
    ELSE Val(pure.result)

\* C35: neither getOccurrencesThatMayBeInDateRange nor allStartDates
\* returns a recurrence id the overrides mark excluded, and neither returns
\* a recurrence id twice.
C35_NoExcludedNoTwice ==
    pure.called # "" =>
        /\ \A i \in DOMAIN C35_Ids : C35_Ids[i] \notin C35_Excluded
        /\ \A i, j \in DOMAIN C35_Ids : C35_Ids[i] = C35_Ids[j] => i = j
\* ---- C36
\* the keys reported as alreadyExists
C36_AlreadyExists ==
    IF pure.args.notCreated = Null THEN {}
    ELSE {storeKey \in DOMAIN Val(pure.args.notCreated) :
             Val(pure.args.notCreated)[storeKey].type = "alreadyExists"}

C36_ReqArgs == pure.inFlightRemoteCalls[1].args

\* C36: when keys are reported as alreadyExists the handler leaves the
\* batch in flight as it is and adds to the send queue one Email/set for
\* the destination account that updates, for each such key, the existingId
\* reported for it with mailboxIds/<id> for every mailbox id of the create
\* of that key, and, when onSuccessDestroyOriginal was asked for, one
\* Email/set for the source account that destroys the original ids of
\* those keys.
C36_Step ==
    LET added == SubSeq(pure.sendQueue', Len(pure.sendQueue) + 1,
                        Len(pure.sendQueue'))
        reqArgs == C36_ReqArgs
        notCreated == Val(pure.args.notCreated)
    IN  ~pure.handled /\ pure.handled' /\ C36_AlreadyExists # {} =>
            /\ pure.inFlightRemoteCalls' = pure.inFlightRemoteCalls
            /\ Len(added) = IF reqArgs.onSuccessDestroyOriginal THEN 2 ELSE 1
            /\ added[1].name = "Email/set"
            /\ added[1].args.accountId = reqArgs.accountId
            /\ added[1].args.destroy = Null
            /\ DOMAIN Val(added[1].args.update) =
                   {notCreated[storeKey].existingId :
                       storeKey \in C36_AlreadyExists}
            /\ \A storeKey \in C36_AlreadyExists :
                   Val(added[1].args.update)[notCreated[storeKey].existingId] =
                       {<< "mailboxIds/", id >> :
                           id \in reqArgs.create[storeKey].mailboxIds}
            /\ reqArgs.onSuccessDestroyOriginal =>
                   /\ added[2].name = "Email/set"
                   /\ added[2].args.accountId = reqArgs.fromAccountId
                   /\ added[2].args.update = Null
                   /\ Range(Val(added[2].args.destroy)) =
                          {reqArgs.create[storeKey].id :
                              storeKey \in C36_AlreadyExists}

C36_ExistingUpdated == [][C36_Step]_vars
\* ---- C37
\* the responses whose handler was called
C37_Called(handled) ==
    {handled[i].response : i \in {j \in DOMAIN handled : handled[j].called}}

\* the responses at which an error was caught
C37_Errors(handled) ==
    {handled[i].response : i \in {j \in DOMAIN handled : handled[j].error}}

\* C37: whatever handlers throw and whatever tags match no request, the
\* handler of every response that has one and whose tag selects a request
\* of the batch is called, and after the last page the callbacks of the
\* batch are queued and the state in flight is cleared.
C37_Step ==
    pure.stage = "response" /\ pure.stage' # "response" =>
        /\ \A i \in DOMAIN pure.data :
              /\ pure.data[i].name \in ResponseHandlers
              /\ pure.data[i].tag \in {"0", "1"}
              => i \in C37_Called(pure.handled')
        /\ ~MorePages(pure.inFlightContext, Val(pure.inFlightRemoteCalls)) =>
              /\ Len(pure.middleQueue') = Len(Val(pure.inFlightCallbacks))
              /\ \A i \in DOMAIN pure.middleQueue' :
                    pure.middleQueue'[i].fn = Val(pure.inFlightCallbacks)[i].fn
              /\ pure.inFlightRemoteCalls' = Null
              /\ pure.inFlightCallbacks' = Null
              /\ pure.inFlightContext' = Null

C37_DispatchGoesOn == [][C37_Step]_vars

\* the first handler threw, the second response matched no request, the
\* handler of the third was called, and the batch is done
C37_Witness ==
    /\ pure.stage = "done"
    /\ 1 \in pure.throwing
    /\ C37_Errors(pure.handled) = {1, 2}
    /\ C37_Called(pure.handled) = {1, 3}
    /\ Len(pure.middleQueue) = 2
    /\ pure.inFlightRemoteCalls = Null
\* ---- C38
\* C38: the paging context is null whenever no batch is in flight, after
\* any sequence of successes, retries and discards.
C38_NoContextWithoutBatch ==
    inFlightRemoteCalls = Null => inFlightContext = Null
\* ---- C39
\* C39: hasRequests() is true whenever a batch is in flight, the send queue
\* is not empty, or one of the queues of queries to fetch, types to fetch,
\* types to refresh, records to fetch and records to refresh holds an
\* entry, and false only when none does.
C39_AnyWorkSeen ==
    hasRequests <=>
        \/ inFlightRemoteCalls # Null
        \/ sendQueue # << >>
        \/ queriesToFetch # {}
        \/ typesToFetch # {}
        \/ typesToRefresh # {}
        \/ recordsToFetch # {}
        \/ recordsToRefresh # {}
\* ---- C40
\* C40: the function given to lastly (or the noop in its place) is called
\* at most once in the life of a sequence, whatever the order of the calls
\* of go, next and cancel, each started step calling next at most once;
\* stated for the sequences the application starts with go() once, before
\* or after a cancel().
C40_AfterwardsOnce ==
    Count(pure.trace, "go") <= 1 => Count(pure.trace, "afterwards") <= 1
====
